---- MODULE Spec2Model ----
(***************************************************************************)
(* SlideDeckML: the component/slot validator                               *)
(* (slide-deck-ml-validator.ts, checkComponentReferences) and the          *)
(* render-tree generator (generator.ts, generateModel .. generateComponent *)
(* Slot), modelled over a bounded family of parsed documents.              *)
(***************************************************************************)
EXTENDS Integers, Sequences, FiniteSets, TLC

VARIABLES model, validated, diagnostics, boxChecks, componentsSymbolTable,
          output, previous, toolbar, quiz, live

vars == <<model, validated, diagnostics, boxChecks, componentsSymbolTable,
          output, previous, toolbar, quiz, live>>

(***************************************************************************)
(* Bounds of the input family                                              *)
(***************************************************************************)
\* deepest wrapping of a box in nested grid containers
MaxNest == 2
\* largest number of slot fills written at one call site
MaxFills == 2
\* frames available to the generator's recursion before the engine raises
\* RangeError (call stack exhausted)
MaxCallStack == 18

(***************************************************************************)
(* The document tree (generated/ast.js as used by validator and generator) *)
(***************************************************************************)
\* value of an attribute written as a bare flag (attribute.value undefined)
undefined == "undefined"

Attr(atype, key, value) == [atype |-> atype, key |-> key, value |-> value]

Node(type, attributes, boxes, ref, slots, name, content) ==
    [type |-> type, attributes |-> attributes, boxes |-> boxes, ref |-> ref,
     slots |-> slots, name |-> name, content |-> content]

TextBox(attributes) == Node("TextBox", attributes, <<>>, "", <<>>, "", <<>>)
ImageBox(attributes) == Node("ImageBox", attributes, <<>>, "", <<>>, "", <<>>)
VideoBox(attributes) == Node("VideoBox", attributes, <<>>, "", <<>>, "", <<>>)
ListBox(attributes) == Node("ListBox", attributes, <<>>, "", <<>>, "", <<>>)
QuizBox(attributes) == Node("QuizBox", attributes, <<>>, "", <<>>, "", <<>>)
ContentBox(attributes, boxes) ==
    Node("ContentBox", attributes, boxes, "", <<>>, "", <<>>)
ComponentContentBox(attributes, boxes) ==
    Node("ComponentContentBox", attributes, boxes, "", <<>>, "", <<>>)
\* content is <<>> (no default) or <<box>>
ComponentSlot(name, content) ==
    Node("ComponentSlot", <<>>, <<>>, "", <<>>, name, content)
\* ref is the name written at the call site; slots are the fills
ComponentBoxReference(ref, attributes, slots) ==
    Node("ComponentBoxReference", attributes, <<>>, ref, slots, "", <<>>)
SlotFill(name, content) == [name |-> name, content |-> content]

Component(name, content) == [name |-> name, content |-> content]
Slide(id, content) == [id |-> id, content |-> content]

\* a step of the path that identifies a node of the document
Step(f, i) == [f |-> f, i |-> i]

(***************************************************************************)
(* Linking (the front-end's cross-reference resolution)                    *)
(***************************************************************************)
Min(S) == CHOOSE x \in S : \A y \in S : x <= y
Max(S) == CHOOSE x \in S : \A y \in S : x >= y

DeclarationsOf(m, name) ==
    {i \in 1..Len(m.components) : m.components[i].name = name}

\* reference.reference.ref: <<>> when the name resolves to no component,
\* otherwise the FIRST component declared with that name
Link(m, refText) ==
    IF DeclarationsOf(m, refText) = {} THEN <<>>
    ELSE <<m.components[Min(DeclarationsOf(m, refText))]>>

(***************************************************************************)
(* slide-deck-ml-validator.ts: checkComponentReferences                    *)
(***************************************************************************)
Diagnostic(severity, message, node, slot, component) ==
    [severity |-> severity, message |-> message, node |-> node,
     slot |-> slot, component |-> component]

\* Set.add on an insertion-ordered Set
SetAdd(seq, x) ==
    IF \E i \in 1..Len(seq) : seq[i] = x THEN seq ELSE Append(seq, x)

RECURSIVE SetAddAll(_, _)
SetAddAll(seq, xs) ==
    IF xs = <<>> THEN seq ELSE SetAddAll(SetAdd(seq, Head(xs)), Tail(xs))

Reference(path, node) == [path |-> path, node |-> node]

RECURSIVE collectComponentBoxReferences(_, _)
RECURSIVE flatMapBoxReferences(_, _, _)
\* the references of a slide-level box: the box itself or, for a grid
\* container, those of its children; nothing else is descended into
collectComponentBoxReferences(box, path) ==
    CASE box.type = "ComponentBoxReference" -> <<Reference(path, box)>>
      [] box.type = "ContentBox" -> flatMapBoxReferences(box.boxes, path, 1)
      [] OTHER -> <<>>

\* box.boxes.flatMap(b => collectComponentBoxReferences(b)), from child i on
flatMapBoxReferences(boxes, path, i) ==
    IF i > Len(boxes) THEN <<>>
    ELSE collectComponentBoxReferences(boxes[i], path \o <<Step("boxes", i)>>)
         \o flatMapBoxReferences(boxes, path, i + 1)

ComponentInformation(slots, references) ==
    [slots |-> slots, references |-> references]

RECURSIVE collectComponentInformations(_, _)
RECURSIVE collectChildInformations(_, _, _, _)
collectComponentInformations(componentBox, path) ==
    CASE componentBox.type = "ComponentSlot" ->
           ComponentInformation(
               <<componentBox.name>>,
               IF componentBox.content # <<>>
               THEN collectComponentBoxReferences(componentBox.content[1],
                        path \o <<Step("content", 1)>>)
               ELSE <<>>)
      [] componentBox.type = "ComponentBoxReference" ->
           ComponentInformation(<<>>, <<Reference(path, componentBox)>>)
      [] componentBox.type = "ComponentContentBox" ->
           collectChildInformations(componentBox.boxes, path, 1,
                                    ComponentInformation(<<>>, <<>>))
      [] OTHER -> ComponentInformation(<<>>, <<>>)

\* the loop over componentBox.boxes, from child i on
collectChildInformations(boxes, path, i, informations) ==
    IF i > Len(boxes) THEN informations
    ELSE LET childInformations ==
                 collectComponentInformations(boxes[i],
                                              path \o <<Step("boxes", i)>>)
         IN collectChildInformations(boxes, path, i + 1,
                ComponentInformation(
                    SetAddAll(informations.slots, childInformations.slots),
                    SetAddAll(informations.references,
                              childInformations.references)))

ComponentPath(i) == <<Step("components", i), Step("content", 1)>>
SlidePath(i) == <<Step("slides", i), Step("content", 1)>>

RECURSIVE SymbolTableKeys(_, _)
\* keys of the validator's Map in iteration order (order of first insertion)
SymbolTableKeys(m, i) ==
    IF i = 0 THEN <<>>
    ELSE SetAdd(SymbolTableKeys(m, i - 1), m.components[i].name)

\* value of the validator's Map for a declared name: the informations of the
\* LAST declaration with that name
SymbolTableGet(m, name) ==
    IF DeclarationsOf(m, name) = {} THEN <<>>
    ELSE LET last == Max(DeclarationsOf(m, name))
         IN <<collectComponentInformations(m.components[last].content,
                                           ComponentPath(last))>>

RECURSIVE checkDeclarations(_, _)
\* lines 326-331: one warning per component whose name is already in the table
checkDeclarations(m, i) ==
    IF i > Len(m.components) THEN <<>>
    ELSE (IF \E j \in 1..(i - 1) : m.components[j].name = m.components[i].name
          THEN <<Diagnostic("warning", "declared multiple times",
                            <<Step("components", i)>>, "",
                            m.components[i].name)>>
          ELSE <<>>)
         \o checkDeclarations(m, i + 1)

RECURSIVE checkDeclarationReferences(_, _, _, _)
\* lines 335-342 for the component called name, from its reference i on
checkDeclarationReferences(m, name, references, i) ==
    IF i > Len(references) THEN <<>>
    ELSE LET reference == references[i]
             ref == Link(m, reference.node.ref)
         IN (IF ref = <<>> \/ SymbolTableGet(m, ref[1].name) = <<>>
             THEN <<Diagnostic("error", "Unknown component", reference.path,
                               "", "")>>
             ELSE IF name = ref[1].name
             THEN <<Diagnostic("error", "cannot reference itself",
                               reference.path, "", name)>>
             ELSE <<>>)
            \o checkDeclarationReferences(m, name, references, i + 1)

RECURSIVE checkDeclarationsReferences(_, _, _)
\* lines 334-343, from key i of the symbol table on
checkDeclarationsReferences(m, keys, i) ==
    IF i > Len(keys) THEN <<>>
    ELSE checkDeclarationReferences(m, keys[i],
             SymbolTableGet(m, keys[i])[1].references, 1)
         \o checkDeclarationsReferences(m, keys, i + 1)

RECURSIVE collectSlidesReferences(_, _)
\* line 346: model.slides.flatMap(slide => collectComponentBoxReferences(..))
collectSlidesReferences(m, i) ==
    IF i > Len(m.slides) THEN <<>>
    ELSE collectComponentBoxReferences(m.slides[i].content, SlidePath(i))
         \o collectSlidesReferences(m, i + 1)

RECURSIVE checkSlotsUsages(_, _, _, _, _, _)
\* lines 357-369, from fill i on
checkSlotsUsages(reference, informations, componentName, i, usedSlots, acc) ==
    IF i > Len(reference.node.slots) THEN [usedSlots |-> usedSlots, acc |-> acc]
    ELSE LET slot == reference.node.slots[i]
             node == reference.path \o <<Step("slots", i)>>
         IN IF slot.name \in usedSlots
            THEN checkSlotsUsages(reference, informations, componentName,
                     i + 1, usedSlots,
                     Append(acc, Diagnostic("error", "used more than once",
                                            node, slot.name, "")))
            ELSE checkSlotsUsages(reference, informations, componentName,
                     i + 1, usedSlots \cup {slot.name},
                     IF \E k \in 1..Len(informations.slots) :
                            informations.slots[k] = slot.name
                     THEN acc
                     ELSE Append(acc, Diagnostic("error", "Unknown slot",
                                     node, slot.name, componentName)))

RECURSIVE checkUnusedSlots(_, _, _, _, _)
\* lines 372-376, from declared slot i on
checkUnusedSlots(reference, informations, componentName, usedSlots, i) ==
    IF i > Len(informations.slots) THEN <<>>
    ELSE (IF informations.slots[i] \notin usedSlots
          THEN <<Diagnostic("warning", "never used", reference.path,
                            informations.slots[i], componentName)>>
          ELSE <<>>)
         \o checkUnusedSlots(reference, informations, componentName,
                             usedSlots, i + 1)

\* lines 348-376: the body of the loop over the slides' references
checkSlideReference(m, reference) ==
    LET component == Link(m, reference.node.ref)
        informations == IF component = <<>> THEN <<>>
                        ELSE SymbolTableGet(m, component[1].name)
    IN IF component = <<>> \/ informations = <<>>
       THEN <<Diagnostic("error", "Unknown component", reference.path, "", "")>>
       ELSE LET used == checkSlotsUsages(reference, informations[1],
                                         component[1].name, 1, {}, <<>>)
            IN used.acc
               \o checkUnusedSlots(reference, informations[1],
                                   component[1].name, used.usedSlots, 1)

RECURSIVE checkSlideReferences(_, _, _)
checkSlideReferences(m, references, i) ==
    IF i > Len(references) THEN <<>>
    ELSE checkSlideReference(m, references[i])
         \o checkSlideReferences(m, references, i + 1)

\* the diagnostics the validator hands to its acceptor, in order
checkComponentReferences(m) ==
    checkDeclarations(m, 1)
    \o checkDeclarationsReferences(m, SymbolTableKeys(m, Len(m.components)), 1)
    \o checkSlideReferences(m, collectSlidesReferences(m, 1), 1)


RECURSIVE collectAttributeTypeChecker(_, _, _)
\* lines 437-452: the type guard chosen for a call site's attributes, found by
\* following reference.reference.ref (the linked declaration) through
\* root-level references; depth is the number of frames left
collectAttributeTypeChecker(m, reference, depth) ==
    IF depth = 0 THEN "RangeError"
    ELSE LET ref == Link(m, reference.ref)
         IN IF ref = <<>> THEN "false"
            ELSE CASE ref[1].content.type = "ComponentContentBox" -> "isContentBoxAttribute"
                   [] ref[1].content.type = "TextBox" -> "isTextBoxAttribute"
                   [] ref[1].content.type = "ListBox" -> "isListBoxAttribute"
                   [] ref[1].content.type = "ImageBox" -> "isMediaBoxAttribute"
                   [] ref[1].content.type = "VideoBox" -> "isMediaBoxAttribute"
                   [] ref[1].content.type = "ComponentBoxReference" ->
                        collectAttributeTypeChecker(m, ref[1].content, depth - 1)
                   [] OTHER -> "false"

(***************************************************************************)
(* The checks the registry runs on single boxes                            *)
(***************************************************************************)
\* the attribute keys common to every box kind
CommonKeys == {"alignment", "width", "height", "fragment"}

\* the keys of the attribute kind a type guard of generated/ast.js accepts
AuthorizedKeys(guard) ==
    CASE guard = "isContentBoxAttribute" -> {"column"} \cup CommonKeys
      [] guard = "isTextBoxAttribute" ->
            {"bold", "italic", "underline", "strikethrough", "highlight",
             "color", "font", "text-size"} \cup CommonKeys
      [] guard = "isListBoxAttribute" ->
            {"type", "spaceBetweenItems"} \cup CommonKeys
      [] guard = "isMediaBoxAttribute" -> {"scale"} \cup CommonKeys
      [] OTHER -> {}

\* attributeTypeChecker(attribute): the guard applied to a call-site attribute
isBoxAttribute(guard, attribute) == attribute.key \in AuthorizedKeys(guard)

\* a diagnostic accepted on a box; key names the attribute it is about
BoxDiagnostic(severity, message, node, key) ==
    [severity |-> severity, message |-> message, node |-> node, key |-> key]

RECURSIVE checkAttributesFrom(_, _, _, _)
\* lines 423-433: the loop over reference.attributes, from attribute i on
checkAttributesFrom(attributeTypeChecker, n, i, usedAttributes) ==
    IF i > Len(n.node.attributes) THEN <<>>
    ELSE LET attribute == n.node.attributes[i]
         IN (IF ~isBoxAttribute(attributeTypeChecker, attribute)
             THEN <<BoxDiagnostic("error", "is not authorized", n.path,
                                  attribute.key)>>
             ELSE <<>>)
            \o (IF attribute.key \in usedAttributes
                THEN <<BoxDiagnostic("warning", "declared multiple times",
                                     n.path, attribute.key)>>
                ELSE <<>>)
            \o checkAttributesFrom(attributeTypeChecker, n, i + 1,
                                   usedAttributes \cup {attribute.key})

\* lines 418-435: nothing is checked when the call site does not resolve; a
\* guard lookup that exhausts the call stack ends the check with the exception
checkComponentBoxAttributes(m, n) ==
    IF Link(m, n.node.ref) = <<>> THEN <<>>
    ELSE LET attributeTypeChecker ==
                 collectAttributeTypeChecker(m, n.node, MaxCallStack)
         IN IF attributeTypeChecker = "RangeError"
            THEN <<BoxDiagnostic("exception", "RangeError", n.path, "")>>
            ELSE checkAttributesFrom(attributeTypeChecker, n, 1, {})

\* an optional property of a node: <<>> when the document does not write it,
\* <<value>> otherwise
optional(node, f) == IF f \in DOMAIN node THEN node[f] ELSE <<>>

RECURSIVE streamAst(_, _)
RECURSIVE streamAllFrom(_, _, _, _)
RECURSIVE streamFillsFrom(_, _, _)
\* the boxes of a subtree in document order, each with its path
streamAst(box, path) ==
    <<Reference(path, box)>>
    \o streamAllFrom(box.boxes, path, "boxes", 1)
    \o streamAllFrom(box.content, path, "content", 1)
    \o streamFillsFrom(box.slots, path, 1)

streamAllFrom(boxes, path, f, i) ==
    IF i > Len(boxes) THEN <<>>
    ELSE streamAst(boxes[i], path \o <<Step(f, i)>>)
         \o streamAllFrom(boxes, path, f, i + 1)

streamFillsFrom(fills, path, i) ==
    IF i > Len(fills) THEN <<>>
    ELSE streamAst(fills[i].content,
                   path \o <<Step("slots", i), Step("content", 1)>>)
         \o streamFillsFrom(fills, path, i + 1)

RECURSIVE streamComponentsFrom(_, _)
streamComponentsFrom(m, i) ==
    IF i > Len(m.components) THEN <<>>
    ELSE streamAst(m.components[i].content, ComponentPath(i))
         \o streamComponentsFrom(m, i + 1)

\* the boxes of the header and of the footer of a deck or of a slide
streamHeaderFooter(node, path) ==
    (IF optional(node, "header") = <<>> THEN <<>>
     ELSE streamAst(node.header[1].content,
                    path \o <<Step("header", 1), Step("content", 1)>>))
    \o (IF optional(node, "footer") = <<>> THEN <<>>
        ELSE streamAst(node.footer[1].content,
                       path \o <<Step("footer", 1), Step("content", 1)>>))

RECURSIVE streamSlidesFrom(_, _)
streamSlidesFrom(m, i) ==
    IF i > Len(m.slides) THEN <<>>
    ELSE streamHeaderFooter(m.slides[i], <<Step("slides", i)>>)
         \o streamAst(m.slides[i].content, SlidePath(i))
         \o streamSlidesFrom(m, i + 1)

\* every box of the document: the validation pass visits each of them
streamModel(m) ==
    streamHeaderFooter(m, <<>>) \o streamComponentsFrom(m, 1)
    \o streamSlidesFrom(m, 1)

(***************************************************************************)
(* generator.ts: the render tree                                           *)
(***************************************************************************)
\* a node of the render tree: its element, the fragment class it carries, the
\* attributes its renderer was handed, and its children
RNode(tag, fragment, attributes, children) ==
    [tag |-> tag, fragment |-> fragment, attributes |-> attributes,
     children |-> children]

EmptyNode == RNode("", "", <<>>, <<>>)

\* the outcome of a generator call: a node, or the exception it raised
Ok(node) == [status |-> "ok", node |-> node]
Throw(error) == [status |-> error, node |-> EmptyNode]

\* getAttributeValue: the value of the first attribute with that key
getAttributeValue(attributes, key) ==
    IF \E i \in 1..Len(attributes) : attributes[i].key = key
    THEN attributes[Min({i \in 1..Len(attributes) : attributes[i].key = key})].value
    ELSE undefined

\* the element a terminal renderer (generateTextBox, generateImageBox, ...)
\* produces for a box of that type
TerminalTag(type) ==
    CASE type = "TextBox" -> "p"
      [] type = "ImageBox" -> "img"
      [] type = "VideoBox" -> "iframe"
      [] type = "ListBox" -> "list"
      [] type = "QuizBox" -> "quiz"
      [] type = "LiveQuizBox" -> "livequiz"
      [] type = "CodeBox" -> "code"

generateTerminal(box) == RNode(TerminalTag(box.type), "", box.attributes, <<>>)

generateTerminalBoxWithFragment(box, content) ==
    LET fragmentStyle == getAttributeValue(box.attributes, "fragment")
    IN IF fragmentStyle # undefined
       THEN RNode("div", fragmentStyle, <<>>, <<content>>)
       ELSE content

(***************************************************************************)
(* generator.ts: the layout of a grid container                            *)
(***************************************************************************)
\* the characters of the attribute values the documents below are written with
Spell(value) ==
    CASE value = "" -> <<>>
      [] value = "0" -> <<"0">>
      [] value = "1" -> <<"1">>
      [] value = "2" -> <<"2">>
      [] value = "3" -> <<"3">>
      [] value = "4" -> <<"4">>
      [] value = "12" -> <<"1", "2">>
      [] value = "13" -> <<"1", "3">>
      [] value = "-1" -> <<"-", "1">>
      [] value = "3x" -> <<"3", "x">>
      [] value = " 3" -> <<" ", "3">>
      [] value = "abc" -> <<"a", "b", "c">>
      [] value = "top" -> <<"t", "o", "p">>
      [] value = "center" -> <<"c", "e", "n", "t", "e", "r">>
      [] value = "bottom" -> <<"b", "o", "t", "t", "o", "m">>
      [] value = "left" -> <<"l", "e", "f", "t">>
      [] value = "right" -> <<"r", "i", "g", "h", "t">>
      [] value = "top left" -> <<"t", "o", "p", " ", "l", "e", "f", "t">>
      [] value = "top center" ->
            <<"t", "o", "p", " ", "c", "e", "n", "t", "e", "r">>
      [] value = "top right" -> <<"t", "o", "p", " ", "r", "i", "g", "h", "t">>
      [] value = "center left" ->
            <<"c", "e", "n", "t", "e", "r", " ", "l", "e", "f", "t">>
      [] value = "center center" ->
            <<"c", "e", "n", "t", "e", "r", " ", "c", "e", "n", "t", "e", "r">>
      [] value = "center right" ->
            <<"c", "e", "n", "t", "e", "r", " ", "r", "i", "g", "h", "t">>
      [] value = "bottom left" ->
            <<"b", "o", "t", "t", "o", "m", " ", "l", "e", "f", "t">>
      [] value = "bottom center" ->
            <<"b", "o", "t", "t", "o", "m", " ", "c", "e", "n", "t", "e", "r">>
      [] value = "bottom right" ->
            <<"b", "o", "t", "t", "o", "m", " ", "r", "i", "g", "h", "t">>
      [] value = "left top" -> <<"l", "e", "f", "t", " ", "t", "o", "p">>
      [] value = "top-left" -> <<"t", "o", "p", "-", "l", "e", "f", "t">>
      [] value = "top  left" -> <<"t", "o", "p", " ", " ", "l", "e", "f", "t">>

\* a JavaScript number: a finite integer, NaN or Infinity
Number(v) == [kind |-> "number", value |-> v]
NaN == [kind |-> "NaN", value |-> 0]
Infinity == [kind |-> "Infinity", value |-> 0]

Digits == {"0", "1", "2", "3", "4", "5", "6", "7", "8", "9"}

DigitValue(c) ==
    CASE c = "0" -> 0 [] c = "1" -> 1 [] c = "2" -> 2 [] c = "3" -> 3
      [] c = "4" -> 4 [] c = "5" -> 5 [] c = "6" -> 6 [] c = "7" -> 7
      [] c = "8" -> 8 [] c = "9" -> 9

RECURSIVE parseDigits(_, _, _)
\* the value of the longest run of digits of chars from position i on, acc
\* being the value read so far; -1 when not a single digit was read
parseDigits(chars, i, acc) ==
    IF i <= Len(chars) /\ chars[i] \in Digits
    THEN parseDigits(chars, i + 1,
                     10 * (IF acc < 0 THEN 0 ELSE acc) + DigitValue(chars[i]))
    ELSE acc

RECURSIVE skipWhiteSpace(_, _)
skipWhiteSpace(chars, i) ==
    IF i <= Len(chars) /\ chars[i] = " " THEN skipWhiteSpace(chars, i + 1)
    ELSE i

\* parseInt(value, 10): leading blanks, an optional sign, then digits up to
\* the first other character; NaN when there is no digit
parseInt(value) ==
    LET chars == Spell(value)
        start == skipWhiteSpace(chars, 1)
        signed == start <= Len(chars) /\ chars[start] \in {"-", "+"}
        magnitude == parseDigits(chars, IF signed THEN start + 1 ELSE start, -1)
    IN IF magnitude < 0 THEN NaN
       ELSE IF signed /\ chars[start] = "-" THEN Number(0 - magnitude)
       ELSE Number(magnitude)

\* Math.floor in place of Math.ceil: the rounding the row count must not use
MathFloorDiv(boxCount, column) ==
    IF column.kind = "NaN" THEN NaN
    ELSE IF column.value = 0
    THEN (IF boxCount = 0 THEN NaN ELSE Infinity)
    ELSE IF column.value > 0
    THEN Number(boxCount \div column.value)
    ELSE Number(0 - (boxCount \div (0 - column.value)))

\* Math.ceil(boxCount / column) on a non-negative count
MathCeilDiv(boxCount, column) ==
    IF column.kind = "NaN" THEN NaN
    ELSE IF column.value = 0
    THEN (IF boxCount = 0 THEN NaN ELSE Infinity)
    ELSE IF column.value > 0
    THEN Number((boxCount + column.value - 1) \div column.value)
    ELSE Number(0 - (boxCount \div (0 - column.value)))

RECURSIVE split(_, _, _)
\* value.split(' '): the pieces of chars between blanks, word being the piece
\* under construction from position i on
split(chars, i, word) ==
    IF i > Len(chars) THEN <<word>>
    ELSE IF chars[i] = " " THEN <<word>> \o split(chars, i + 1, <<>>)
    ELSE split(chars, i + 1, Append(word, chars[i]))

\* map[word] ?? 'center' (lines 1816-1825); word is undefined when the
\* destructured position does not exist
alignmentMap(word) ==
    CASE word = Spell("top") -> "start"
      [] word = Spell("center") -> "center"
      [] word = Spell("bottom") -> "end"
      [] word = Spell("left") -> "start"
      [] word = Spell("right") -> "end"
      [] OTHER -> "center"

\* the placement mapAlignment returns: its vertical and its horizontal word
Placement(vertical, horizontal) ==
    [vertical |-> vertical, horizontal |-> horizontal]

mapAlignment(value) ==
    IF value = undefined \/ value = "" THEN Placement("center", "center")
    ELSE LET words == split(Spell(value), 1, <<>>)
         IN Placement(alignmentMap(words[1]),
                      alignmentMap(IF Len(words) >= 2 THEN words[2]
                                   ELSE <<"undefined">>))

\* the value of the last attribute with that key (the loop of lines 1766-1782
\* overwrites), orElse when there is none
lastAttributeValue(attributes, key, orElse) ==
    IF \E i \in 1..Len(attributes) : attributes[i].key = key
    THEN attributes[Max({i \in 1..Len(attributes) : attributes[i].key = key})].value
    ELSE orElse

\* generateContentBoxAttributes: the grid template, the size in force and the
\* placement of the cells
generateContentBoxAttributes(attributes, boxCount) ==
    LET columnAttr == getAttributeValue(attributes, "column")
        column == IF columnAttr # undefined /\ columnAttr # ""
                  THEN parseInt(columnAttr) ELSE Number(2)
    IN [columns |-> column,
        rows |-> MathCeilDiv(boxCount, column),
        height |-> lastAttributeValue(attributes, "height", "100%"),
        width |-> lastAttributeValue(attributes, "width", "100%"),
        alignment |-> mapAlignment(
                          lastAttributeValue(attributes, "alignment", undefined))]

\* the node of a grid container: its style comes from its attributes and the
\* number of its child boxes
GridNode(fragment, attributes, children, boxCount) ==
    [tag |-> "grid", fragment |-> fragment, attributes |-> attributes,
     children |-> children,
     style |-> generateContentBoxAttributes(attributes, boxCount)]

RECURSIVE collectAttributeType(_, _, _)
\* the attribute kind of the root box the reference leads to, following
\* reference.reference.ref (the linked declaration); depth is the number of
\* frames left
collectAttributeType(m, reference, depth) ==
    IF depth = 0 THEN "RangeError"
    ELSE LET ref == Link(m, reference.ref)
         IN IF ref = <<>> THEN ""
            ELSE CASE ref[1].content.type = "ComponentContentBox" -> "ContentBoxAttribute"
                   [] ref[1].content.type = "TextBox" -> "TextBoxAttribute"
                   [] ref[1].content.type = "ListBox" -> "ListBoxAttribute"
                   [] ref[1].content.type = "ImageBox" -> "MediaBoxAttribute"
                   [] ref[1].content.type = "VideoBox" -> "MediaBoxAttribute"
                   [] ref[1].content.type = "ComponentBoxReference" ->
                        collectAttributeType(m, ref[1].content, depth - 1)
                   [] OTHER -> ""

RECURSIVE MapSetAll(_, _)
\* new Map(entries) / Map.set for each attribute in turn: a key keeps the
\* position of its first insertion and takes the value written last
MapSetAll(map, attributes) ==
    IF attributes = <<>> THEN map
    ELSE LET a == Head(attributes)
             at == {i \in 1..Len(map) : map[i].key = a.key}
         IN MapSetAll(
                IF at = {} THEN Append(map, [key |-> a.key, value |-> a.value])
                ELSE [map EXCEPT ![Min(at)].value = a.value],
                Tail(attributes))

\* lines 1708-1713: the declared attributes overridden by the call site's
mergedAttributes(declarationBox, reference) ==
    MapSetAll(MapSetAll(<<>>, declarationBox.attributes), reference.attributes)

\* the root box types whose attributes the call site overrides (line 1703)
MergedRootTypes ==
    {"ComponentContentBox", "TextBox", "ListBox", "ComponentBoxReference"}

\* lines 1702-1715: the declaration's root box as handed to generateComponentBox
overrideDeclarationAttributes(m, declaration, reference, depth) ==
    IF declaration.content.type \in MergedRootTypes
    THEN LET merged == mergedAttributes(declaration.content, reference)
             atype == IF merged = <<>> THEN ""
                      ELSE collectAttributeType(m, reference, depth)
         IN IF atype = "RangeError" THEN <<>>
            ELSE <<[declaration.content EXCEPT !.attributes =
                      [i \in 1..Len(merged) |->
                          Attr(atype, merged[i].key, merged[i].value)]]>>
    ELSE <<declaration.content>>

\* members every plain object inherits from Object.prototype: slots is
\* created as {} (line 1696), so slots[name] finds them under these names
ObjectPrototypeKeys ==
    {"constructor", "toString", "valueOf", "hasOwnProperty", "isPrototypeOf",
     "propertyIsEnumerable", "toLocaleString"}

\* the inherited function slots[name] evaluates to: not a generator node
InheritedMember(name) == [tag |-> "[native code]", fragment |-> "",
                          attributes |-> <<>>, children |-> <<>>,
                          member |-> name]

\* node.appendNewLineIfNotEmpty() (lines 1675, 1749): a TypeError when node is
\* not a generator node
appendNewLineIfNotEmpty(node) ==
    IF node.tag = "[native code]" THEN Throw("TypeError") ELSE Ok(node)

\* the container's node once its children are generated, or the exception
\* one of them raised
gridOf(children, fragmentStyle, box) ==
    IF children.status # "ok" THEN Throw(children.status)
    ELSE Ok(GridNode(IF fragmentStyle # undefined THEN fragmentStyle ELSE "",
                     box.attributes, children.nodes, Len(box.boxes)))

\* generateTerminalBoxWithFragment(box, content) once content is generated
withFragment(box, content) ==
    IF content.status # "ok" THEN content
    ELSE Ok(generateTerminalBoxWithFragment(box, content.node))

\* generated.appendNewLineIfNotEmpty() once the box is generated
appended(generated) ==
    IF generated.status # "ok" THEN generated
    ELSE appendNewLineIfNotEmpty(generated.node)

\* joinToNode over the nodes of a map(): the first exception raised, or the
\* nodes in order
joinToNode(first, rest) ==
    IF first.status # "ok" THEN [status |-> first.status, nodes |-> <<>>]
    ELSE IF rest.status # "ok" THEN rest
    ELSE [status |-> "ok", nodes |-> <<first.node>> \o rest.nodes]

RECURSIVE generateBox(_, _, _, _)
RECURSIVE generateBoxes(_, _, _, _, _)
RECURSIVE generateComponentBoxReference(_, _, _, _)
RECURSIVE generateSlots(_, _, _, _, _, _)
RECURSIVE setSlot(_, _, _, _, _, _, _)
RECURSIVE instantiate(_, _, _, _, _, _)
RECURSIVE instantiateBox(_, _, _, _, _)
RECURSIVE generateComponentBox(_, _, _, _, _)
RECURSIVE generateComponentBoxes(_, _, _, _, _, _)

generateBox(m, table, box, depth) ==
    IF depth = 0 THEN Throw("RangeError")
    ELSE CASE box.type = "ContentBox" ->
                gridOf(generateBoxes(m, table, box.boxes, 1, depth - 1),
                       getAttributeValue(box.attributes, "fragment"), box)
           [] box.type = "ComponentBoxReference" ->
                withFragment(box, generateComponentBoxReference(m, table, box,
                                                                depth - 1))
           [] box.type \in {"TextBox", "ImageBox", "VideoBox", "ListBox",
                            "QuizBox", "LiveQuizBox", "CodeBox"} ->
                Ok(generateTerminalBoxWithFragment(box, generateTerminal(box)))
           [] OTHER -> Throw("Error")

\* box.boxes.map(b => generateBox(b).appendNewLineIfNotEmpty()), from child i
generateBoxes(m, table, boxes, i, depth) ==
    IF i > Len(boxes) THEN [status |-> "ok", nodes |-> <<>>]
    ELSE joinToNode(appended(generateBox(m, table, boxes[i], depth)),
                    generateBoxes(m, table, boxes, i + 1, depth))

\* lines 1696-1699: slots[slot.name] = generateBox(slot.content), from fill i on
generateSlots(m, table, fills, i, slots, depth) ==
    IF i > Len(fills) THEN [status |-> "ok", slots |-> slots]
    ELSE setSlot(m, table, fills, i, slots, depth,
                 generateBox(m, table, fills[i].content, depth))

\* line 1698: the assignment of fill i once its content is generated
setSlot(m, table, fills, i, slots, depth, content) ==
    IF content.status # "ok"
    THEN [status |-> content.status, slots |-> slots]
    ELSE generateSlots(m, table, fills, i + 1,
             [n \in DOMAIN slots \cup {fills[i].name} |->
                 IF n = fills[i].name THEN content.node ELSE slots[n]],
             depth)

generateComponentBoxReference(m, table, reference, depth) ==
    IF depth = 0 THEN Throw("RangeError")
    ELSE IF Link(m, reference.ref) = <<>> THEN Throw("TypeError")
    ELSE IF reference.ref \notin DOMAIN table THEN Throw("TypeError")
    ELSE instantiate(m, table, table[reference.ref], reference,
                     generateSlots(m, table, reference.slots, 1, <<>>,
                                   depth - 1),
                     depth)

\* lines 1701-1717: after the fills, the declaration's root box is overridden
\* and rendered
instantiate(m, table, declaration, reference, slots, depth) ==
    IF slots.status # "ok" THEN Throw(slots.status)
    ELSE instantiateBox(m, table,
                        overrideDeclarationAttributes(m, declaration, reference,
                                                      depth - 1),
                        slots.slots, depth)

\* line 1717: generateComponentBox(declarationBox, slots)
instantiateBox(m, table, declarationBox, slots, depth) ==
    IF declarationBox = <<>> THEN Throw("RangeError")
    ELSE generateComponentBox(m, table, declarationBox[1], slots, depth - 1)

generateComponentBox(m, table, box, slots, depth) ==
    IF depth = 0 THEN Throw("RangeError")
    ELSE CASE box.type \in {"TextBox", "ImageBox", "VideoBox", "QuizBox",
                            "ListBox", "LiveQuizBox"} ->
                Ok(generateTerminal(box))
           [] box.type = "ComponentBoxReference" ->
                generateComponentBoxReference(m, table, box, depth - 1)
           [] box.type = "ComponentSlot" ->
                \* generateComponentSlot
                IF box.name \in DOMAIN slots THEN Ok(slots[box.name])
                ELSE IF box.name \in ObjectPrototypeKeys
                THEN Ok(InheritedMember(box.name))
                ELSE IF box.content # <<>>
                THEN generateBox(m, table, box.content[1], depth - 1)
                ELSE Ok(EmptyNode)
           [] box.type = "ComponentContentBox" ->
                gridOf(generateComponentBoxes(m, table, box.boxes, 1, slots,
                                              depth - 1),
                       undefined, box)
           [] OTHER -> Throw("Error")

\* box.boxes.map(box => generateComponentBox(box, slots)
\* .appendNewLineIfNotEmpty()), from child i on
generateComponentBoxes(m, table, boxes, i, slots, depth) ==
    IF i > Len(boxes) THEN [status |-> "ok", nodes |-> <<>>]
    ELSE joinToNode(appended(generateComponentBox(m, table, boxes[i], slots,
                                                  depth)),
                    generateComponentBoxes(m, table, boxes, i + 1, slots,
                                           depth))

\* a table that is built by the first run only and kept by the later ones
keptComponentsSymbolTable(m) ==
    IF DOMAIN componentsSymbolTable = {}
    THEN [name \in {m.components[i].name : i \in 1..Len(m.components)} |->
             m.components[Max(DeclarationsOf(m, name))]]
    ELSE componentsSymbolTable

\* line 1001: new Map(model.components.map(c => [c.name, c])): the last
\* declaration of a name is the one kept
newComponentsSymbolTable(m) ==
    [name \in {m.components[i].name : i \in 1..Len(m.components)} |->
        m.components[Max(DeclarationsOf(m, name))]]

\* a header or a footer: its content box and its quoted style strings (<<>>
\* when not written)
HeaderFooter(content, background, color, fontSize) ==
    [content |-> content, background |-> background, color |-> color,
     fontSize |-> fontSize]

\* model.header || slide.header: the order the slide's header must not be
\* looked up in
modelHeaderOrFooter(slide, m, f) ==
    IF optional(m, f) # <<>> THEN optional(m, f) ELSE optional(slide, f)

\* lines 1588-1589: slide.header || model.header, slide.footer || model.footer
slideHeaderOrFooter(slide, m, f) ==
    IF optional(slide, f) # <<>> THEN optional(slide, f) ELSE optional(m, f)

\* text.slice(1, -1): the string without its first and last character
slice(chars) == SubSeq(chars, 2, Len(chars) - 1)

\* generateHeaderFooterStyles: the declarations of the styles that are written
generateHeaderFooterStyles(headerOrFooter) ==
    (IF headerOrFooter.background # <<>>
     THEN <<<<"background", slice(headerOrFooter.background)>>>> ELSE <<>>)
    \o (IF headerOrFooter.color # <<>>
        THEN <<<<"color", slice(headerOrFooter.color)>>>> ELSE <<>>)
    \o (IF headerOrFooter.fontSize # <<>>
        THEN <<<<"font-size", slice(headerOrFooter.fontSize)>>>> ELSE <<>>)

\* the section of a slide: its content as the only child, the header and the
\* footer markup (<<>> when none) and their style declarations
SectionNode(id, header, footer, headerStyles, footerStyles, content) ==
    [tag |-> "section", fragment |-> "", attributes |-> <<>>,
     children |-> <<content>>, id |-> id, header |-> header,
     footer |-> footer, headerStyles |-> headerStyles,
     footerStyles |-> footerStyles]

\* generateHeaderFooterHtml: the markup of the header or footer in force, if any
generateHeaderFooterHtml(m, table, headerOrFooter, depth) ==
    IF headerOrFooter # <<>>
    THEN generateBox(m, table, headerOrFooter[1].content, depth)
    ELSE Ok(EmptyNode)

\* lines 1599-1611: the section, or the first exception raised on the way
sectionOf(slide, header, footer, headerHtml, footerHtml, content) ==
    IF headerHtml.status # "ok" THEN headerHtml
    ELSE IF footerHtml.status # "ok" THEN footerHtml
    ELSE IF content.status # "ok" THEN content
    ELSE Ok(SectionNode(
             slide.id,
             IF header # <<>> THEN <<headerHtml.node>> ELSE <<>>,
             IF footer # <<>> THEN <<footerHtml.node>> ELSE <<>>,
             IF header # <<>> THEN generateHeaderFooterStyles(header[1])
             ELSE <<>>,
             IF footer # <<>> THEN generateHeaderFooterStyles(footer[1])
             ELSE <<>>,
             content.node))

\* lines 1592-1611: header and footer are rendered first, then the content
renderSlide(m, table, slide, header, footer, depth) ==
    sectionOf(slide, header, footer,
              generateHeaderFooterHtml(m, table, header, depth),
              generateHeaderFooterHtml(m, table, footer, depth),
              generateBox(m, table, slide.content, depth))

\* generateSlide: the header and the footer in force are resolved, then the
\* slide is rendered
generateSlide(m, table, slide, depth) ==
    renderSlide(m, table, slide, slideHeaderOrFooter(slide, m, "header"),
                slideHeaderOrFooter(slide, m, "footer"), depth)

RECURSIVE generateSlides(_, _, _, _)
\* model.slides.map(slide => generateSlide(slide, model)), from slide i on
generateSlides(m, table, i, depth) ==
    IF i > Len(m.slides) THEN [status |-> "ok", nodes |-> <<>>]
    ELSE joinToNode(generateSlide(m, table, m.slides[i], depth),
                    generateSlides(m, table, i + 1, depth))

\* generateModel: the render tree of the whole deck, or the exception raised
generateModel(m) ==
    generateSlides(m, newComponentsSymbolTable(m), 1, MaxCallStack)


(***************************************************************************)
(* The documents the front-end may deliver                                 *)
(***************************************************************************)
\* "Z" is a name no document declares
RefTexts == {"A", "B", "Z"}
\* "u" is a slot name no component declares
FillNames == {"s", "t", "u"}

RECURSIVE Nest(_, _)
\* a slide-level box inside k nested grid containers
Nest(box, k) == IF k = 0 THEN box ELSE ContentBox(<<>>, <<Nest(box, k - 1)>>)

RECURSIVE NestC(_, _)
\* a component box inside k nested component containers
NestC(box, k) ==
    IF k = 0 THEN box ELSE ComponentContentBox(<<>>, <<NestC(box, k - 1)>>)

Text == TextBox(<<>>)
PlainReference(t) == ComponentBoxReference(t, <<>>, <<>>)

RECURSIVE FillSeqs(_)
\* the fills of a call site: up to n of them, each filled with a text
FillSeqs(n) ==
    IF n = 0 THEN {<<>>}
    ELSE FillSeqs(n - 1)
         \cup {Append(fs, SlotFill(name, Text)) :
                  fs \in {f \in FillSeqs(n - 1) : Len(f) = n - 1},
                  name \in FillNames}

FewFills == {fs \in FillSeqs(MaxFills) :
                Len(fs) <= 2 /\ \A i \in 1..Len(fs) : fs[i].name \in {"s", "u"}}

\* a component exposing slots s and t (t with a default)
Card == ComponentContentBox(<<>>,
            <<ComponentSlot("s", <<>>), ComponentSlot("t", <<Text>>)>>)

\* component bodies that shape the reference graph: a reference to t at the
\* root or inside containers, inside a slot's default content, or inside the
\* fill of a reference to another component
GraphBodies(other) ==
    {NestC(PlainReference(t), k) : t \in RefTexts, k \in 0..MaxNest}
    \cup {NestC(ComponentSlot("s", <<Nest(PlainReference(t), k)>>), 1) :
             t \in RefTexts, k \in 0..MaxNest}
    \cup {ComponentBoxReference(other, <<>>,
              <<SlotFill("s", Nest(PlainReference(t), k))>>) :
             t \in RefTexts, k \in 0..MaxNest}
    \cup {Card, Text}

GraphModels ==
    {[components |-> <<Component("A", a)>>, slides |-> <<Slide("s1", c)>>] :
        a \in GraphBodies("Z"), c \in {PlainReference("A"), Text}}
    \cup {[components |-> <<Component("A", a), Component("B", b)>>,
           slides |-> <<Slide("s1", c)>>] :
        a \in GraphBodies("B"), b \in GraphBodies("A"),
        c \in {PlainReference("A"), Text}}

\* slide contents that exercise slot usage: a call site at the root or inside
\* containers, a call site inside the fill of another one, two call sites
SlotSlideBoxes ==
    {Nest(ComponentBoxReference(t, <<>>, fs), k) :
        t \in RefTexts, fs \in FillSeqs(MaxFills), k \in 0..MaxNest}
    \cup {ComponentBoxReference(t, <<>>,
              <<SlotFill("s", Nest(ComponentBoxReference(t2, <<>>, fs), k))>>) :
             t \in RefTexts, t2 \in RefTexts, fs \in FewFills, k \in 0..1}
    \cup {ContentBox(<<>>, <<ComponentBoxReference(t, <<>>, fs),
                            ComponentBoxReference(t2, <<>>, fs2)>>) :
             t \in RefTexts, t2 \in RefTexts, fs \in FewFills, fs2 \in FewFills}

SlotComponents ==
    {<<Component("A", Card)>>,
     <<Component("A", Card), Component("B", ComponentSlot("s", <<>>))>>,
     <<Component("A", Text), Component("A", Card)>>,
     <<Component("A", Card), Component("A", Text), Component("B", Card)>>}

SlotModels ==
    {[components |-> cs, slides |-> <<Slide("s1", c)>>] :
        cs \in SlotComponents, c \in SlotSlideBoxes}

\* declared attributes of a root box and overrides written at a call site
DeclaredAttributes(atype) ==
    {<<>>,
     <<Attr(atype, "width", "100%")>>,
     <<Attr(atype, "width", "100%"), Attr(atype, "height", "20%")>>,
     <<Attr(atype, "bold", undefined)>>}

\* (the kind the grammar gives a call-site attribute is not used by the
\* generator: the merge re-tags every attribute it keeps)
CallSiteAttributes ==
    {<<>>,
     <<Attr("Attribute", "height", "50%")>>,
     <<Attr("Attribute", "width", "50%"), Attr("Attribute", "height", "50%")>>,
     <<Attr("Attribute", "height", "50%"), Attr("Attribute", "width", "50%")>>,
     <<Attr("Attribute", "bold", undefined)>>,
     <<Attr("Attribute", "column", "3"), Attr("Attribute", "height", "50%")>>}

\* root boxes that are not references
RootBoxes ==
    {TextBox(d) : d \in DeclaredAttributes("TextBoxAttribute")}
    \cup {ImageBox(d) : d \in DeclaredAttributes("MediaBoxAttribute")}
    \cup {VideoBox(d) : d \in DeclaredAttributes("MediaBoxAttribute")}
    \cup {ListBox(d) : d \in DeclaredAttributes("ListBoxAttribute")}
    \cup {ComponentContentBox(d, <<Text>>) :
             d \in DeclaredAttributes("ContentBoxAttribute")}

FewRootBoxes ==
    {r \in RootBoxes : Len(r.attributes) = 1 /\ r.attributes[1].key = "width"}

\* the components of a chain A -> B -> ... of root-level references of the
\* given length ending in the root box r
ChainNames == <<"A", "B", "C", "D", "E">>
MaxChain == 2

ChainComponents(length, r) ==
    [i \in 1..(length + 1) |->
        Component(ChainNames[i],
            IF i = length + 1 THEN r
            ELSE ComponentBoxReference(ChainNames[i + 1],
                     <<Attr("Attribute", "height", "10%")>>, <<>>))]

AttributeComponents ==
    {<<Component("A", r)>> : r \in RootBoxes}
    \cup {ChainComponents(n, r) : n \in 1..MaxChain, r \in FewRootBoxes}
    \cup {<<Component("A", r1), Component("A", r2)>> :
             r1 \in FewRootBoxes, r2 \in FewRootBoxes}

AttributeModels ==
    {[components |-> cs,
      slides |-> <<Slide("s1", ComponentBoxReference("A", r, <<>>))>>] :
        cs \in AttributeComponents, r \in CallSiteAttributes}

\* most child boxes written in one grid container
MaxChildren == 7

ColumnAttributes(atype) ==
    {<<>>} \cup {<<Attr(atype, "column", v)>> : v \in {"0", "1", "2", "3", "4", "13", "-1", "3x", "abc"}}

AlignmentAttributes(atype) ==
    {<<Attr(atype, "alignment", v)>> :
        v \in {"", "top", "center", "bottom", "left", "right",
               "top left", "top center", "top right",
               "center left", "center center", "center right",
               "bottom left", "bottom center", "bottom right",
               "left top", "top-left", "top  left"}}

Texts(n) == [i \in 1..n |-> Text]

\* grid containers written in a slide and as the root box of a component
LayoutModels ==
    {[components |-> <<>>,
      slides |-> <<Slide("s1", ContentBox(a, Texts(n)))>>] :
        a \in ColumnAttributes("ContentBoxAttribute"), n \in 0..MaxChildren}
    \cup {[components |-> <<Component("A", ComponentContentBox(a, Texts(n)))>>,
           slides |-> <<Slide("s1", ComponentBoxReference("A", r, <<>>))>>] :
             a \in ColumnAttributes("ContentBoxAttribute"),
             n \in 0..MaxChildren, r \in {<<>>} \cup {<<Attr("Attribute", "column", v)>> :
                                     v \in {"1", "3", "0", "abc"}}}
    \cup {[components |-> <<>>,
           slides |-> <<Slide("s1", ContentBox(a, Texts(1)))>>] :
             a \in AlignmentAttributes("ContentBoxAttribute")}
    \cup {[components |-> <<Component("A", ComponentContentBox(a, Texts(1)))>>,
           slides |-> <<Slide("s1", PlainReference("A"))>>] :
             a \in AlignmentAttributes("ContentBoxAttribute")}

\* slot names; the last two are also names of members of every object
SlotNames == {"s", "constructor", "toString"}

Image == ImageBox(<<>>)

\* a component that is one slot, alone or in a container, with or without a
\* default text, called with no fill or with an image as the fill of one name
SlotNameModels ==
    {[components |-> <<Component("A", NestC(ComponentSlot(n, d), k))>>,
      slides |-> <<Slide("s1", ComponentBoxReference("A", <<>>, fs))>>] :
        n \in SlotNames, d \in {<<>>, <<Text>>}, k \in 0..1,
        fs \in {<<>>} \cup {<<SlotFill(f, Image)>> : f \in SlotNames}}

\* no fragment attribute, or one fragment attribute with that style
FragmentAttributes(atype, style) ==
    {<<>>, <<Attr(atype, "fragment", style)>>}

\* boxes with a fragment in a slide, in the body of a component, as the root
\* box of a component, and fragments written at the call site
FragmentModels ==
    {[components |-> <<>>, slides |-> <<Slide("s1", b)>>] :
        b \in {TextBox(f) : f \in FragmentAttributes("TextBoxAttribute", "fade-in")}
              \cup {ImageBox(f) :
                       f \in FragmentAttributes("MediaBoxAttribute", "fade-in")}
              \cup {ContentBox(f, <<TextBox(g)>>) :
                       f \in FragmentAttributes("ContentBoxAttribute", "fade-in"),
                       g \in FragmentAttributes("TextBoxAttribute", "grow")}}
    \cup {[components |-> <<Component("A", b)>>,
           slides |-> <<Slide("s1", ComponentBoxReference("A", r, <<>>))>>] :
             b \in {TextBox(f) :
                       f \in FragmentAttributes("TextBoxAttribute", "fade-in")}
                   \cup {ImageBox(f) :
                            f \in FragmentAttributes("MediaBoxAttribute", "fade-in")}
                   \cup {ComponentContentBox(f, <<TextBox(g)>>) :
                            f \in FragmentAttributes("ContentBoxAttribute", "fade-in"),
                            g \in FragmentAttributes("TextBoxAttribute", "grow")},
             r \in FragmentAttributes("Attribute", "shrink")}

\* decks of two slides with every combination of declared headers and footers:
\* the header and the footer a deck declares for all its slides and the ones
\* a slide declares for itself, styled with the quoted string '#fff'
HeaderModels ==
    LET QuotedColor == <<"'", "#", "f", "f", "f", "'">>
        ModelHeader ==
            HeaderFooter(TextBox(<<Attr("TextBoxAttribute", "color", "red")>>),
                         QuotedColor, <<>>, <<>>)
        ModelFooter == HeaderFooter(ListBox(<<>>), <<>>, QuotedColor, <<>>)
        SlideHeader ==
            HeaderFooter(TextBox(<<Attr("TextBoxAttribute", "bold", undefined)>>),
                         <<>>, <<>>, <<>>)
        SlideFooter == HeaderFooter(Image, <<>>, <<>>, QuotedColor)
        HeaderSlide(id, content, header, footer) ==
            [id |-> id, content |-> content, header |-> header,
             footer |-> footer]
    IN {[components |-> <<>>,
         slides |-> <<HeaderSlide("s1", Text, h1, f1),
                      HeaderSlide("s2", Image, h2, f2)>>,
         header |-> h, footer |-> f] :
           h \in {<<>>, <<ModelHeader>>}, f \in {<<>>, <<ModelFooter>>},
           h1 \in {<<>>, <<SlideHeader>>}, f1 \in {<<>>, <<SlideFooter>>},
           h2 \in {<<>>, <<SlideHeader>>}, f2 \in {<<>>, <<SlideFooter>>}}

\* the documents given to successive runs of one process: component A with a
\* text or with an image as its root box, a component of another name, and
\* decks that call a name they do not declare
RunModels ==
    {[components |-> cs, slides |-> <<Slide("s1", b)>>] :
        cs \in {<<>>, <<Component("A", Text)>>, <<Component("A", Image)>>,
                <<Component("B", Text)>>},
        b \in {PlainReference("A"), Text}}

\* longest session id written in a live quiz
MaxSessionId == 4

\* every text of at most n characters
Strings(n) == UNION {[1..k -> {" ", "{", "}", "a"}] : k \in 0..n}

\* a live quiz: question, options, answer and session id, each text being
\* <<>> when the document does not write it and <<chars>> when it does
LiveQuizBox(question, options, correctAnswer, sessionId) ==
    [type |-> "LiveQuizBox", attributes |-> <<>>, boxes |-> <<>>, ref |-> "",
     slots |-> <<>>, name |-> "", content |-> <<>>, question |-> question,
     options |-> options, correctAnswer |-> correctAnswer,
     sessionId |-> sessionId]

\* a live quiz as the content of a slide and in the container of a component
LiveQuizModels ==
    LET LiveQuizzes ==
            {LiveQuizBox(<<q>>, <<[id |-> <<"a">>], [id |-> <<"b">>]>>,
                         <<<<"{", "a", "}">>>>, id) :
                q \in {<<"{", "a", "}">>, <<"{", "}">>},
                id \in {<<>>} \cup {<<chars>> : chars \in Strings(MaxSessionId)}}
    IN {[components |-> <<>>, slides |-> <<Slide("s1", lq)>>] :
           lq \in LiveQuizzes}
       \cup {[components |-> <<Component("A",
                                         ComponentContentBox(<<>>, <<lq>>))>>,
              slides |-> <<Slide("s1", PlainReference("A"))>>] :
                lq \in LiveQuizzes}

\* component A holds a slot of its own and a call of component B, whose body
\* is one slot with or without a default text; B is called with no fill or
\* with a video for its slot, A with no fill or with an image for one name
NestedSlotModels ==
    {[components |->
         <<Component("B", ComponentContentBox(<<>>, <<ComponentSlot(inner, d)>>)),
           Component("A", ComponentContentBox(<<>>,
               <<ComponentSlot(outer, <<>>),
                 ComponentBoxReference("B", <<>>, innerFills)>>))>>,
      slides |-> <<Slide("s1", ComponentBoxReference("A", <<>>, outerFills))>>] :
        inner \in SlotNames, outer \in SlotNames, d \in {<<>>, <<Text>>},
        innerFills \in {<<>>} \cup {<<SlotFill(f, VideoBox(<<>>))>> : f \in SlotNames},
        outerFills \in {<<>>} \cup {<<SlotFill(f, Image)>> : f \in SlotNames}}

Models ==
    RunModels \cup GraphModels \cup SlotModels \cup AttributeModels \cup LayoutModels
    \cup SlotNameModels \cup FragmentModels \cup HeaderModels \cup LiveQuizModels
    \cup NestedSlotModels

(***************************************************************************)
(* slide-deck-ml-validator.ts: the checks of attribute values              *)
(***************************************************************************)
RECURSIVE checkBoxAttributesUsages(_, _)
\* lines 455-464: the loop over box.attributes, from attribute i on
checkBoxAttributesUsages(n, i) ==
    IF i > Len(n.node.attributes) THEN <<>>
    ELSE (IF \E j \in 1..(i - 1) :
                n.node.attributes[j].key = n.node.attributes[i].key
          THEN <<BoxDiagnostic("warning", "is declared multiple times", n.path,
                               n.node.attributes[i].key)>>
          ELSE <<>>)
         \o checkBoxAttributesUsages(n, i + 1)

\* lines 639-644: what is accepted for a column attribute that parses to
\* columnValue
checkColumnValue(columnValue, n) ==
    IF columnValue.kind = "NaN" \/ columnValue.value < 1
    THEN <<BoxDiagnostic("error", "Must be a positive integer", n.path,
                         "column")>>
    ELSE IF columnValue.value > 12
    THEN <<BoxDiagnostic("error", "exceeds 12", n.path, "column")>>
    ELSE <<>>

\* attr.value.match(/^(\d+)%?$/): <<>> for null, <<group 1>> for a match
matchHeight(chars) ==
    LET digits == IF chars # <<>> /\ chars[Len(chars)] = "%"
                  THEN SubSeq(chars, 1, Len(chars) - 1) ELSE chars
    IN IF digits # <<>> /\ \A i \in 1..Len(digits) : digits[i] \in Digits
       THEN <<digits>> ELSE <<>>

\* lines 650-657: what is accepted for a height attribute, given the match
checkHeightValue(heightMatch, n) ==
    IF heightMatch = <<>>
    THEN <<BoxDiagnostic("error", "Height must be a percentage format", n.path,
                         "height")>>
    ELSE IF parseDigits(heightMatch[1], 1, -1) > 100
    THEN <<BoxDiagnostic("error", "Height percentage must be between 0% and 100%",
                         n.path, "height")>>
    ELSE <<>>

\* lines 637-672: the switch on attr.key for one attribute; an attribute
\* written without a value has attr.value undefined, on which parseInt gives
\* NaN and .match raises TypeError
checkAttributeValue(attr, n) ==
    CASE attr.key = "column" ->
            checkColumnValue(IF attr.value = undefined THEN NaN
                             ELSE parseInt(attr.value), n)
      [] attr.key = "height" ->
            IF attr.value = undefined
            THEN <<BoxDiagnostic("exception", "TypeError", n.path, "height")>>
            ELSE checkHeightValue(matchHeight(Spell(attr.value)), n)
      [] attr.key = "alignment" ->
            IF attr.value \notin
                   {"top", "center", "bottom", "left", "right", "top-left",
                    "top-center", "top-right", "center-left", "center-center",
                    "center-right", "bottom-left", "bottom-center",
                    "bottom-right"}
            THEN <<BoxDiagnostic("warning", "may not be recognized", n.path,
                                 "alignment")>>
            ELSE <<>>
      [] attr.key = "fragment" ->
            IF attr.value \notin
                   {"fade-in", "fade-up", "fade-down", "fade-left",
                    "fade-right", "fade-in-then-out", "fade-in-then-semi-out",
                    "grow", "shrink", "strike", "highlight-red",
                    "highlight-green", "highlight-blue", "current-visible",
                    "semi-fade-out"}
            THEN <<BoxDiagnostic("warning", "may not be recognized", n.path,
                                 "fragment")>>
            ELSE <<>>
      [] OTHER -> <<>>

\* what the loop has accepted once the check of one attribute is done: an
\* exception ends the loop
thenCheck(first, rest) ==
    IF first # <<>> /\ first[1].severity = "exception" THEN first
    ELSE first \o rest

RECURSIVE checkContentBoxAttributeValues(_, _)
\* lines 635-674: the loop over contentBox.attributes, from attribute i on
checkContentBoxAttributeValues(n, i) ==
    IF i > Len(n.node.attributes) THEN <<>>
    ELSE thenCheck(checkAttributeValue(n.node.attributes[i], n),
                   checkContentBoxAttributeValues(n, i + 1))

RECURSIVE trim(_)
\* text.trim()
trim(chars) ==
    IF chars # <<>> /\ Head(chars) = " " THEN trim(Tail(chars))
    ELSE IF chars # <<>> /\ chars[Len(chars)] = " "
    THEN trim(SubSeq(chars, 1, Len(chars) - 1))
    ELSE chars

\* the text as written, trimmed only
trimmedText(text) ==
    IF text = <<>> \/ text[1] = <<>> THEN <<>> ELSE trim(text[1])

\* lines 514-521: text is <<>> for undefined and <<chars>> for a string; the
\* trimmed text loses the braces that enclose it
textContent(text) ==
    IF text = <<>> \/ text[1] = <<>> THEN <<>>
    ELSE LET trimmed == trim(text[1])
         IN IF /\ trimmed # <<>>
               /\ Head(trimmed) = "{"
               /\ trimmed[Len(trimmed)] = "}"
            THEN trim(slice(trimmed)) ELSE trimmed

\* lines 489-511: the checks that depend on quiz.type (<<>> when the quiz has
\* no type, as a live quiz)
checkQuizType(n, type, options, correctAnswer) ==
    CASE type = <<"mcq">> ->
            (IF Len(options) < 2
             THEN <<BoxDiagnostic("error",
                                  "MCQ quizzes should define at least 2 options",
                                  n.path, "options")>>
             ELSE <<>>)
            \o (IF correctAnswer = <<>>
                THEN <<BoxDiagnostic("warning",
                                     "MCQ quiz is missing 'correctAnswer'",
                                     n.path, "correctAnswer")>>
                ELSE IF /\ options # <<>>
                        /\ \A i \in 1..Len(options) :
                              options[i].id # correctAnswer
                THEN <<BoxDiagnostic("warning", "does not match any option id",
                                     n.path, "correctAnswer")>>
                ELSE <<>>)
      [] type = <<"short">> ->
            (IF Len(options) > 0
             THEN <<BoxDiagnostic("warning",
                        "Short-answer quizzes should not define 'option' entries",
                        n.path, "options")>>
             ELSE <<>>)
            \o (IF correctAnswer = <<>>
                THEN <<BoxDiagnostic("warning",
                                     "Short-answer quiz is missing 'correctAnswer'",
                                     n.path, "correctAnswer")>>
                ELSE <<>>)
      [] OTHER -> <<>>

\* lines 483-512
checkQuizCommon(n) ==
    (IF textContent(optional(n.node, "question")) = <<>>
     THEN <<BoxDiagnostic("error", "Quiz question is required", n.path,
                          "question")>>
     ELSE <<>>)
    \o checkQuizType(n, optional(n.node, "quizType"), optional(n.node, "options"),
                     textContent(optional(n.node, "correctAnswer")))

\* lines 474-481
checkLiveQuizBox(n) ==
    checkQuizCommon(n)
    \o (IF textContent(optional(n.node, "sessionId")) = <<>>
        THEN <<BoxDiagnostic("error", "Live quiz requires a non-empty session id",
                             n.path, "sessionId")>>
        ELSE <<>>)

\* lines 290-306: the checks registered for the type of one node. The checks
\* registered for local quizzes, images, videos and lists read properties
\* (question, type, src, alt, items) that the boxes of these documents always
\* write.
validateNode(m, n) ==
    CASE n.node.type = "ComponentBoxReference" -> checkComponentBoxAttributes(m, n)
      [] n.node.type = "ComponentContentBox" -> checkBoxAttributesUsages(n, 1)
      [] n.node.type = "ContentBox" ->
            checkBoxAttributesUsages(n, 1) \o checkContentBoxAttributeValues(n, 1)
      [] n.node.type \in {"TextBox", "ListBox"} ->
            checkBoxAttributesUsages(n, 1)
      [] n.node.type = "LiveQuizBox" -> checkLiveQuizBox(n)
      [] OTHER -> <<>>

RECURSIVE validateNodes(_, _, _)
validateNodes(m, nodes, i) ==
    IF i > Len(nodes) THEN <<>>
    ELSE validateNode(m, nodes[i]) \o validateNodes(m, nodes, i + 1)

(***************************************************************************)
(* The state machine: a parsed document is validated and generated         *)
(***************************************************************************)
\* the generator's module-level table before generateModel has ever run
NoTable == [name \in {} |-> Component("", Text)]

NoOutput == [status |-> "none", nodes |-> <<>>, written |-> FALSE]

\* no check registered on a box has run yet
NoBoxChecks == [done |-> FALSE, diagnostics |-> <<>>]

Init ==
    /\ model \in Models
    /\ validated = FALSE
    /\ diagnostics = <<>>
    /\ boxChecks = NoBoxChecks
    /\ componentsSymbolTable = NoTable
    /\ output = NoOutput
    /\ previous = [model |-> <<>>, output |-> NoOutput]
    /\ toolbar = <<>>
    /\ quiz = <<>>
    /\ live = <<>>

\* the validation registry runs the Model check and collects what it accepts
CheckComponentReferences ==
    /\ ~validated
    /\ validated' = TRUE
    /\ diagnostics' = checkComponentReferences(model)
    /\ UNCHANGED <<model, boxChecks, componentsSymbolTable, output, previous,
                   toolbar, quiz, live>>

\* the validation registry runs the checks registered on single boxes over
\* every node of the document and collects what they accept
ValidateBoxes ==
    /\ ~boxChecks.done
    /\ boxChecks' = [done |-> TRUE,
                     diagnostics |-> validateNodes(model, streamModel(model), 1)]
    /\ UNCHANGED <<model, validated, diagnostics, componentsSymbolTable,
                   output, previous, toolbar, quiz, live>>

\* generateOutput: build the render tree, then write the artifact; an
\* exception raised by generateModel leaves nothing written
GenerateOutput ==
    /\ output.status = "none"
    /\ componentsSymbolTable' = newComponentsSymbolTable(model)
    /\ LET fileNode == generateModel(model)
       IN output' = [status |-> fileNode.status, nodes |-> fileNode.nodes,
                     written |-> fileNode.status = "ok"]
    /\ UNCHANGED <<model, validated, diagnostics, boxChecks, previous,
                   toolbar, quiz, live>>

\* the same process is handed another document: nothing of the finished run
\* is kept but the module-level table of the generator
LoadDocument ==
    /\ output.status # "none"
    /\ model \in RunModels
    /\ model' \in RunModels
    /\ validated' = FALSE
    /\ diagnostics' = <<>>
    /\ boxChecks' = NoBoxChecks
    /\ output' = NoOutput
    /\ previous' = [model |-> <<model>>, output |-> output]
    /\ UNCHANGED <<componentsSymbolTable, toolbar, quiz, live>>

Next ==
    CheckComponentReferences \/ ValidateBoxes \/ GenerateOutput \/ LoadDocument

Spec == Init /\ [][Next]_vars

TypeOK ==
    /\ validated \in BOOLEAN
    /\ output.status \in {"none", "ok", "TypeError", "RangeError", "Error"}
    /\ output.written \in BOOLEAN


(***************************************************************************)
(* generator.ts, the script of the generated page: the annotation toolbar  *)
(***************************************************************************)
\* largest number of slides of a deck opened in the browser
MaxSlides == 3

\* hasAttribute: some attribute of the list carries the key
hasAttribute(attributes, key) ==
    \E i \in DOMAIN attributes : attributes[i].key = key

\* setTool: the tool that is already active is switched off ("null" is the
\* script's null), any other one becomes the active tool
setTool(currentTool, tool) == IF currentTool = tool THEN "null" ELSE tool

\* updateToolbarVisibility: the toolbar is shown on a section of class
\* annotable; on any other it is hidden and setTool(null) is called
updateToolbarVisibility(t, currentSlide) ==
    IF t.sections[currentSlide] = "annotable"
    THEN [t EXCEPT !.currentSlide = currentSlide, !.display = "flex"]
    ELSE [t EXCEPT !.currentSlide = currentSlide, !.display = "none",
                   !.currentTool = setTool(t.currentTool, "null")]

\* the generated page is loaded: generateSlide gave every section its class,
\* the style sheet shows the toolbar, no tool is chosen and Reveal has not
\* announced a slide yet (currentSlide 0)
InitToolbar ==
    /\ model \in {[components |-> <<>>, slides |-> slides] :
                    slides \in UNION {[1..n ->
                        {[id |-> "s", content |-> Text, attributes |-> a] :
                            a \in {<<>>,
                                   <<Attr("SlideAttribute", "non-annotable",
                                          undefined)>>,
                                   <<Attr("SlideAttribute", "annotable",
                                          undefined)>>}}] : n \in 1..MaxSlides}}
    /\ validated = FALSE
    /\ diagnostics = <<>>
    /\ boxChecks = NoBoxChecks
    /\ componentsSymbolTable = NoTable
    /\ output = NoOutput
    /\ previous = [model |-> <<>>, output |-> NoOutput]
    /\ toolbar = [sections |->
                      [i \in 1..Len(model.slides) |->
                          IF hasAttribute(model.slides[i].attributes,
                                          "non-annotable")
                          THEN "" ELSE "annotable"],
                  currentSlide |-> 0, display |-> "flex",
                  currentTool |-> "null"]
    /\ quiz = <<>>
    /\ live = <<>>

\* Reveal's 'ready' and 'slidechanged': the deck shows another slide
SlideChanged ==
    \E currentSlide \in 1..Len(toolbar.sections) :
        /\ currentSlide # toolbar.currentSlide
        /\ toolbar' = updateToolbarVisibility(toolbar, currentSlide)
        /\ UNCHANGED <<model, validated, diagnostics, boxChecks,
                       componentsSymbolTable, output, previous, quiz, live>>

\* onclick of a tool button of the toolbar, which can be clicked while shown
ClickTool ==
    \E tool \in {"pen", "highlighter", "text", "eraser"} :
        /\ toolbar.display = "flex"
        /\ toolbar' = [toolbar EXCEPT
                           !.currentTool = setTool(toolbar.currentTool, tool)]
        /\ UNCHANGED <<model, validated, diagnostics, boxChecks,
                       componentsSymbolTable, output, previous, quiz, live>>

\* the document's keydown listener: Escape drops the tool; with the focus in
\* an editable text the other keys are left alone; d, h, t and e choose a
\* tool; c and s clear and export, which leave the tool alone
KeyDown ==
    \E key \in {"escape", "d", "h", "t", "e", "c", "s"},
       contentEditable \in BOOLEAN :
        /\ toolbar' =
               IF key = "escape"
               THEN [toolbar EXCEPT
                         !.currentTool = setTool(toolbar.currentTool, "null")]
               ELSE IF contentEditable THEN toolbar
               ELSE IF key = "d"
               THEN [toolbar EXCEPT
                         !.currentTool = setTool(toolbar.currentTool, "pen")]
               ELSE IF key = "h"
               THEN [toolbar EXCEPT !.currentTool =
                         setTool(toolbar.currentTool, "highlighter")]
               ELSE IF key = "t"
               THEN [toolbar EXCEPT
                         !.currentTool = setTool(toolbar.currentTool, "text")]
               ELSE IF key = "e"
               THEN [toolbar EXCEPT !.currentTool =
                         setTool(toolbar.currentTool, "eraser")]
               ELSE toolbar
        /\ UNCHANGED <<model, validated, diagnostics, boxChecks,
                       componentsSymbolTable, output, previous, quiz, live>>

NextToolbar == SlideChanged \/ ClickTool \/ KeyDown

SpecToolbar == InitToolbar /\ [][NextToolbar]_vars

(***************************************************************************)
(* generator.ts, generateQuizBox: the quiz widget and its inline handlers  *)
(***************************************************************************)
\* longest answer written in the document or typed by the learner
MaxAnswer == 2

\* the text with the case of its letters kept
caseKept(chars) == chars

\* String.prototype.toLowerCase over the letters of the answers
toLowerCase(chars) ==
    [i \in DOMAIN chars |->
        CASE chars[i] = "A" -> "a" [] chars[i] = "B" -> "b"
          [] OTHER -> chars[i]]

\* a handler that shows the results after every submission
submitRevealing(q, v) ==
    [q EXCEPT !.feedback =
                  IF toLowerCase(v) = toLowerCase(trim(q.correctAnswer))
                  THEN "Correct." ELSE "Not quite.",
              !.results = "block",
              !.reveal = IF q.revealOnDemand THEN "none" ELSE @]

\* the end of both Submit handlers, v being the trimmed selection:
\* ok = v.toLowerCase() === c.toLowerCase() with c the trimmed
\* data-correct-answer; the feedback is written and, when not ok, the results
\* are shown and the Reveal button (if the widget has one) is hidden
submit(q, v) ==
    IF toLowerCase(v) = toLowerCase(trim(q.correctAnswer))
    THEN [q EXCEPT !.feedback = "Correct."]
    ELSE [q EXCEPT !.feedback = "Not quite.", !.results = "block",
                   !.reveal = IF q.revealOnDemand THEN "none" ELSE @]

\* generateQuizBox: the widget of a quiz of the document, as loaded by the
\* browser. data-correct-answer is text.slice(1, -1).trim() of the answer
\* written, or '' without one; a short quiz has a text input, any other type
\* one radio button per option, its value being the option's id; with
\* revealResultsOnDemand the results start hidden beside a Reveal button,
\* otherwise they are shown ("" is the display of the style sheet) and there
\* is no button ("absent")
InitQuiz ==
    /\ model \in {[components |-> <<>>, slides |-> <<Slide("s1", box)>>] :
          box \in {[type |-> "QuizBox", attributes |-> <<>>, boxes |-> <<>>,
                    ref |-> "", slots |-> <<>>, name |-> "", content |-> <<>>,
                    quizType |-> t, question |-> <<"{", "a", "}">>,
                    options |-> <<[id |-> <<"a">>], [id |-> <<"B">>]>>,
                    correctAnswer |-> c, revealResultsOnDemand |-> r] :
                      t \in {"short", "mcq"}, r \in BOOLEAN,
                      c \in {<<>>} \cup
                            {<<<<"{">> \o s \o <<"}">>>> :
                                s \in UNION {[1..k -> {" ", "a", "A", "b"}] :
                                                k \in 0..MaxAnswer}}}}
    /\ validated = FALSE
    /\ diagnostics = <<>>
    /\ boxChecks = NoBoxChecks
    /\ componentsSymbolTable = NoTable
    /\ output = NoOutput
    /\ previous = [model |-> <<>>, output |-> NoOutput]
    /\ toolbar = <<>>
    /\ LET box == model.slides[1].content
       IN quiz = [type |-> box.quizType,
                  correctAnswer |-> IF box.correctAnswer # <<>>
                                    THEN trim(slice(box.correctAnswer[1]))
                                    ELSE <<>>,
                  revealOnDemand |-> box.revealResultsOnDemand,
                  radios |-> [i \in DOMAIN box.options |-> box.options[i].id],
                  value |-> <<>>, checked |-> 0, feedback |-> "",
                  results |-> IF box.revealResultsOnDemand THEN "none" ELSE "",
                  reveal |-> IF box.revealResultsOnDemand THEN "" ELSE "absent"]
    /\ live = <<>>

\* the learner types into the input of a short quiz, or picks a radio button
\* of any other quiz
Answer ==
    /\ \/ /\ quiz.type = "short"
          /\ \E value \in UNION {[1..k -> {" ", "a", "A", "b"}] :
                                    k \in 0..MaxAnswer} :
                 quiz' = [quiz EXCEPT !.value = value]
       \/ /\ quiz.type # "short"
          /\ \E checked \in DOMAIN quiz.radios :
                 quiz' = [quiz EXCEPT !.checked = checked]
    /\ UNCHANGED <<model, validated, diagnostics, boxChecks,
                   componentsSymbolTable, output, previous, toolbar, live>>

\* Submit of a short quiz: v = (i.value || '').trim(); if (!v) return
SubmitShort ==
    /\ quiz.type = "short"
    /\ quiz' = IF trim(quiz.value) = <<>> THEN quiz
               ELSE submit(quiz, trim(quiz.value))
    /\ UNCHANGED <<model, validated, diagnostics, boxChecks,
                   componentsSymbolTable, output, previous, toolbar, live>>

\* Submit of a quiz with options: ch is the checked radio; if (!ch) return;
\* v = (ch.value || '').trim()
SubmitChoice ==
    /\ quiz.type # "short"
    /\ quiz' = IF quiz.checked = 0 THEN quiz
               ELSE submit(quiz, trim(quiz.radios[quiz.checked]))
    /\ UNCHANGED <<model, validated, diagnostics, boxChecks,
                   componentsSymbolTable, output, previous, toolbar, live>>

\* the Reveal button, clickable while the widget has one that is displayed
RevealAnswer ==
    /\ quiz.reveal = ""
    /\ quiz' = [quiz EXCEPT !.results = "block", !.reveal = "none"]
    /\ UNCHANGED <<model, validated, diagnostics, boxChecks,
                   componentsSymbolTable, output, previous, toolbar, live>>

NextQuiz == Answer \/ SubmitShort \/ SubmitChoice \/ RevealAnswer

SpecQuiz == InitQuiz /\ [][NextQuiz]_vars

(***************************************************************************)
(* The live quiz: generateLiveQuizBox and the socket of the generated page *)
(* (generator.ts) with the relay of quizzes and votes (src/unnamed/        *)
(* part_000). A message is [event, data], data being                       *)
(* [sessionId, choice, question, options] with "" and <<>> for what the    *)
(* event does not carry.                                                   *)
(***************************************************************************)
\* most live quizzes of a deck
MaxLiveQuizzes == 2
\* most messages in flight to the relay
MaxIncoming == 1
\* most messages in flight to one socket
MaxInFlight == 2
\* most votes counted by a widget
MaxVotes == 2
\* most messages sent by the clients other than the page
MaxEmits == 2

\* every socket that has joined some room
toEverySocket(rooms, room) == UNION {rooms[r] : r \in DOMAIN rooms}

\* io.to(room): the sockets that have joined the room
to(rooms, room) == rooms[room]

\* the generated page is loaded and the relay has just started. Every live
\* quiz of the deck has its widget: sessionId is the constant of line 2063,
\* the question and the option labels are text.slice(1, -1).trim(), voteCounts
\* is a plain object that got voteCounts[opt] = 0 for every label (an
\* assignment that JavaScript ignores for the label __proto__), and every
\* option has its counter element showing 0. No socket is connected, the
\* relay has no quiz, no room has a member and the other clients have sent
\* nothing (emits counts what they send). The decks have one live quiz, with
\* b or __proto__ as its second label and SESSION123 or room2 as its session
\* id, and then more live quizzes with the labels a and b in session room2.
InitLive ==
    /\ model \in
          {[components |-> <<>>, slides |-> slides] :
              slides \in
                  {[w \in 1..n |->
                       Slide("s", LiveQuizBox(<<<<"{", "q", "}">>>>,
                           <<[id |-> <<"a">>,
                              content |-> <<"{", " ", "a", "}">>],
                             [id |-> <<"b">>,
                              content |-> <<"{", IF w = 1 THEN label ELSE "b",
                                            "}">>]>>,
                           <<>>,
                           <<<<"{", IF w = 1 THEN id ELSE "room2", "}">>>>))] :
                     n \in 1..MaxLiveQuizzes,
                     label \in {"b", "__proto__"},
                     id \in {"SESSION123", "room2"}}}
    /\ validated = FALSE
    /\ diagnostics = <<>>
    /\ boxChecks = NoBoxChecks
    /\ componentsSymbolTable = NoTable
    /\ output = NoOutput
    /\ previous = [model |-> <<>>, output |-> NoOutput]
    /\ toolbar = <<>>
    /\ quiz = <<>>
    /\ live =
          [connected |-> FALSE,
           widgets |->
               [w \in DOMAIN model.slides |->
                   LET box == model.slides[w].content
                       options == [i \in DOMAIN box.options |->
                                      trim(slice(box.options[i].content))]
                   IN [sessionId |-> "SESSION123",
                       question |-> trim(slice(box.question[1])),
                       options |-> options,
                       listening |-> FALSE,
                       voteCounts |->
                           [opt \in {options[i] : i \in DOMAIN options}
                                        \ {<<"__proto__">>} |-> 0],
                       counts |-> [i \in DOMAIN options |->
                                      [text |-> "number", value |-> 0]]]],
           incoming |-> <<>>,
           emits |-> 0,
           activeQuizzes |-> [s \in {} |-> <<>>],
           rooms |-> [room \in {"SESSION123", "constructor"} |-> {}],
           inbox |-> [socket \in {"page", "voter"} |-> <<>>]]

\* the page's socket connects: socket.emit("join-session", "SESSION123")
Connect ==
    /\ ~live.connected
    /\ Len(live.incoming) < MaxIncoming
    /\ live' = [live EXCEPT
                   !.connected = TRUE,
                   !.incoming = Append(@,
                       [socket |-> "page", event |-> "join-session",
                        data |-> [sessionId |-> "SESSION123", choice |-> <<>>,
                                  question |-> <<>>, options |-> <<>>]])]
    /\ UNCHANGED <<model, validated, diagnostics, boxChecks,
                   componentsSymbolTable, output, previous, toolbar, quiz>>

\* initQuiz of one widget, run once by its timer when window.sdmlSocket is
\* set: register-quiz is emitted with the widget's session id, question and
\* options, and the widget starts to listen to qcm-results-update
initQuiz ==
    \E w \in DOMAIN live.widgets :
        /\ ~live.widgets[w].listening
        /\ Len(live.incoming) < MaxIncoming
        /\ live' = [live EXCEPT
                       !.widgets[w].listening = TRUE,
                       !.incoming = Append(@,
                           [socket |-> "page", event |-> "register-quiz",
                            data |-> [sessionId |-> live.widgets[w].sessionId,
                                      choice |-> <<>>,
                                      question |-> live.widgets[w].question,
                                      options |-> live.widgets[w].options]])]
        /\ UNCHANGED <<model, validated, diagnostics, boxChecks,
                       componentsSymbolTable, output, previous, toolbar, quiz>>

\* another client of the relay (the voter page of lines 39-73 or any other
\* program) joins a session or votes
Emit ==
    \E event \in {"join-session", "vote"},
       sessionId \in DOMAIN live.rooms,
       choice \in {<<"a">>, <<"__proto__">>} :
        /\ Len(live.incoming) < MaxIncoming
        /\ live.emits < MaxEmits
        /\ live' = [live EXCEPT !.emits = @ + 1, !.incoming = Append(@,
               [socket |-> "voter", event |-> event,
                data |-> [sessionId |-> sessionId,
                          choice |-> IF event = "vote" THEN choice ELSE <<>>,
                          question |-> <<>>, options |-> <<>>]])]
        /\ UNCHANGED <<model, validated, diagnostics, boxChecks,
                       componentsSymbolTable, output, previous, toolbar, quiz>>

\* the relay's join-session handler: the socket joins the room, is sent
\* mobile-ip and, when activeQuizzes[sessionId] is truthy, new-quiz-data with
\* that value. activeQuizzes is a plain object: for a session id that is not
\* a property of its own the lookup goes to Object.prototype, whose members
\* are functions (and no quiz)
JoinSession ==
    /\ live.incoming # <<>>
    /\ Head(live.incoming).event = "join-session"
    /\ LET socket == Head(live.incoming).socket
           sessionId == Head(live.incoming).data.sessionId
           empty == [sessionId |-> "", choice |-> <<>>, question |-> <<>>,
                     options |-> <<>>]
           sync ==
               IF sessionId \in DOMAIN live.activeQuizzes
               THEN <<[event |-> "new-quiz-data",
                       data |-> live.activeQuizzes[sessionId]]>>
               ELSE IF sessionId \in ObjectPrototypeKeys
               THEN <<[event |-> "new-quiz-data",
                       data |-> [empty EXCEPT
                                    !.question = <<"[native code]">>]]>>
               ELSE <<>>
       IN /\ Len(live.inbox[socket]) + 1 + Len(sync) <= MaxInFlight
          /\ live' = [live EXCEPT
                 !.incoming = Tail(@),
                 !.rooms[sessionId] = @ \cup {socket},
                 !.inbox[socket] =
                     (@ \o <<[event |-> "mobile-ip", data |-> empty]>>)
                         \o sync]
    /\ UNCHANGED <<model, validated, diagnostics, boxChecks,
                   componentsSymbolTable, output, previous, toolbar, quiz>>

\* the relay's register-quiz handler: activeQuizzes[data.sessionId] = data,
\* then io.to(data.sessionId).emit("new-quiz-data", data)
RegisterQuiz ==
    /\ live.incoming # <<>>
    /\ Head(live.incoming).event = "register-quiz"
    /\ LET data == Head(live.incoming).data
       IN /\ \A socket \in to(live.rooms, data.sessionId) :
                 Len(live.inbox[socket]) < MaxInFlight
          /\ live' = [live EXCEPT
                 !.incoming = Tail(@),
                 !.activeQuizzes =
                     [s \in DOMAIN @ \cup {data.sessionId} |->
                         IF s = data.sessionId THEN data ELSE @[s]],
                 !.inbox =
                     [socket \in DOMAIN @ |->
                         IF socket \in to(live.rooms, data.sessionId)
                         THEN Append(@[socket], [event |-> "new-quiz-data",
                                                 data |-> data])
                         ELSE @[socket]]]
    /\ UNCHANGED <<model, validated, diagnostics, boxChecks,
                   componentsSymbolTable, output, previous, toolbar, quiz>>

\* the relay's vote handler:
\* io.to(data.sessionId).emit("qcm-results-update", data)
Vote ==
    /\ live.incoming # <<>>
    /\ Head(live.incoming).event = "vote"
    /\ LET data == Head(live.incoming).data
       IN /\ \A socket \in to(live.rooms, data.sessionId) :
                 Len(live.inbox[socket]) < MaxInFlight
          /\ live' = [live EXCEPT
                 !.incoming = Tail(@),
                 !.inbox =
                     [socket \in DOMAIN @ |->
                         IF socket \in to(live.rooms, data.sessionId)
                         THEN Append(@[socket],
                                     [event |-> "qcm-results-update",
                                      data |-> data])
                         ELSE @[socket]]]
    /\ UNCHANGED <<model, validated, diagnostics, boxChecks,
                   componentsSymbolTable, output, previous, toolbar, quiz>>

\* a socket takes the next message sent to it. On the page,
\* qcm-results-update runs the listener of every widget that listens:
\* voteCounts[v.choice] = (voteCounts[v.choice] || 0) + 1, then the first
\* counter element whose data-option is v.choice, if there is one, shows
\* voteCounts[v.choice]. For the choice __proto__ the lookup gives
\* Object.prototype, the assignment of the sum (a string) is ignored and the
\* element shows "[object Object]". The page's mobile-ip listener keeps the
\* address for the QR code and the page has no listener for new-quiz-data;
\* what another client does with a message is its own business
Receive ==
    \E socket \in DOMAIN live.inbox :
        /\ live.inbox[socket] # <<>>
        /\ LET v == Head(live.inbox[socket]).data
               counted(widget) ==
                   [opt \in DOMAIN widget.voteCounts
                                \cup ({v.choice} \ {<<"__proto__">>}) |->
                       IF opt # v.choice THEN widget.voteCounts[opt]
                       ELSE IF opt \in DOMAIN widget.voteCounts
                       THEN widget.voteCounts[opt] + 1 ELSE 1]
               shown(widget) ==
                   [i \in DOMAIN widget.options |->
                       IF /\ widget.options[i] = v.choice
                          /\ \A j \in 1..(i - 1) : widget.options[j] # v.choice
                       THEN IF v.choice = <<"__proto__">>
                            THEN [text |-> "[object Object]", value |-> 0]
                            ELSE [text |-> "number",
                                  value |-> counted(widget)[v.choice]]
                       ELSE widget.counts[i]]
           IN IF /\ socket = "page"
                 /\ Head(live.inbox[socket]).event = "qcm-results-update"
              THEN /\ \A w \in DOMAIN live.widgets :
                         \A opt \in DOMAIN live.widgets[w].voteCounts :
                             live.widgets[w].voteCounts[opt] < MaxVotes
                   /\ live' = [live EXCEPT
                          !.inbox[socket] = Tail(@),
                          !.widgets =
                              [w \in DOMAIN live.widgets |->
                                  IF live.widgets[w].listening
                                  THEN [live.widgets[w] EXCEPT
                                           !.voteCounts =
                                               counted(live.widgets[w]),
                                           !.counts = shown(live.widgets[w])]
                                  ELSE live.widgets[w]]]
              ELSE live' = [live EXCEPT !.inbox[socket] = Tail(@)]
        /\ UNCHANGED <<model, validated, diagnostics, boxChecks,
                       componentsSymbolTable, output, previous, toolbar, quiz>>

NextLive ==
    \/ Connect
    \/ initQuiz
    \/ Emit
    \/ JoinSession
    \/ RegisterQuiz
    \/ Vote
    \/ Receive

SpecLive == InitLive /\ [][NextLive]_vars

(***************************************************************************)
(* Vocabulary of the properties: the document seen as a tree               *)
(***************************************************************************)
Range(seq) == {seq[i] : i \in 1..Len(seq)}

RECURSIVE Descendants(_, _)
\* every node below and including box, with its path: children of containers,
\* a slot's default content, and the content of every slot fill
Descendants(box, path) ==
    {Reference(path, box)}
    \cup UNION {Descendants(box.boxes[i], path \o <<Step("boxes", i)>>) :
                   i \in 1..Len(box.boxes)}
    \cup UNION {Descendants(box.content[i], path \o <<Step("content", i)>>) :
                   i \in 1..Len(box.content)}
    \cup UNION {Descendants(box.slots[i].content,
                            path \o <<Step("slots", i), Step("content", 1)>>) :
                   i \in 1..Len(box.slots)}

\* the call sites anywhere in the tree of box
ReferencesIn(box, path) ==
    {n \in Descendants(box, path) : n.node.type = "ComponentBoxReference"}

\* the call sites reachable from the slides' content trees
SlideTreeReferences(m) ==
    UNION {ReferencesIn(m.slides[i].content, SlidePath(i)) :
              i \in 1..Len(m.slides)}

\* the slot names a component body declares
DeclaredSlots(box) ==
    {n.node.name : n \in {d \in Descendants(box, <<>>) :
                             d.node.type = "ComponentSlot"}}

DeclaredNames(m) == {m.components[i].name : i \in 1..Len(m.components)}

LastDeclaration(m, name) == m.components[Max(DeclarationsOf(m, name))]

IsPrefix(p, q) == Len(p) <= Len(q) /\ \A i \in 1..Len(p) : p[i] = q[i]

Errors(ds) == {d \in Range(ds) : d.severity = "error"}
Warnings(ds) == {d \in Range(ds) : d.severity = "warning"}

\* component a's body contains a call site naming component b
References(m, i, b) ==
    \E n \in ReferencesIn(m.components[i].content, ComponentPath(i)) :
        n.node.ref = b

\* name a reaches name b through the bodies of the retained declarations
RECURSIVE Reaches(_, _, _, _)
Reaches(m, a, b, steps) ==
    /\ steps > 0
    /\ \/ References(m, Max(DeclarationsOf(m, a)), b)
       \/ \E c \in DeclaredNames(m) \ {a} :
             /\ References(m, Max(DeclarationsOf(m, a)), c)
             /\ Reaches(m, c, b, steps - 1)


\* every call site of the document, in component bodies and in slides
AllReferences(m) ==
    SlideTreeReferences(m)
    \cup UNION {ReferencesIn(m.components[i].content, ComponentPath(i)) :
                   i \in 1..Len(m.components)}

\* the other validation checks stay silent: the linker resolves every call
\* site and the attribute check registered on call sites returns
OtherChecksPass(m) ==
    \A n \in AllReferences(m) :
        /\ Link(m, n.node.ref) # <<>>
        /\ collectAttributeTypeChecker(m, n.node, MaxCallStack) # "RangeError"

(***************************************************************************)
(* Properties                                                              *)
(***************************************************************************)
\* C1: every component whose body contains a call site naming that same
\* component (as root box, inside nested containers, inside a slot's default
\* content, or inside the fill of a nested call site) gets an error from
\* checkComponentReferences.
SelfReferenceAlwaysReported ==
    validated =>
        \A i \in 1..Len(model.components) :
            References(model, i, model.components[i].name) =>
                \E d \in Errors(diagnostics) :
                    IsPrefix(<<Step("components", i)>>, d.node)

\* C2: when the components' reference graph has a cycle through two or more
\* components, checkComponentReferences reports at least one error.
TransitiveCycleReported ==
    (/\ validated
     /\ \E a \in DeclaredNames(model), b \in DeclaredNames(model) :
           /\ a # b
           /\ Reaches(model, a, b, Len(model.components))
           /\ Reaches(model, b, a, Len(model.components)))
    => Errors(diagnostics) # {}

\* C3: on a document for which validation reports no error, generation
\* terminates: the recursion over call sites and slot fills never exhausts
\* the call stack.
ValidatedGenerationTerminates ==
    (/\ validated
     /\ Errors(diagnostics) = {}
     /\ OtherChecksPass(model)
     /\ output.status # "none")
    => output.status # "RangeError"

\* C4: every call site reachable from a slide's content tree (root box, boxes
\* in nested containers, boxes inside the fill of another call site) is
\* checked for resolution and slot usage: what the check of that call site
\* reports is among the diagnostics.
EverySlideReferenceChecked ==
    validated =>
        \A n \in SlideTreeReferences(model) :
            Range(checkSlideReference(model, n)) \subseteq Range(diagnostics)


FillNode(n, i) == n.path \o <<Step("slots", i)>>

ProvidedSlots(n) == {n.node.slots[i].name : i \in 1..Len(n.node.slots)}

\* C5: at every call site in a slide that names a known component C, a fill
\* whose name C does not declare produces an error, a slot name filled again
\* produces an error, and fills with distinct declared names produce no slot
\* error.
SlotFillErrorsReported ==
    validated =>
        \A n \in SlideTreeReferences(model) :
            Link(model, n.node.ref) # <<>> =>
                LET declared ==
                        DeclaredSlots(LastDeclaration(model, n.node.ref).content)
                    fills == n.node.slots
                IN /\ \A i \in 1..Len(fills) :
                          fills[i].name \notin declared =>
                              \E d \in Errors(diagnostics) :
                                  d.node = FillNode(n, i)
                   /\ \A i \in 1..Len(fills), j \in 1..Len(fills) :
                          (i < j /\ fills[i].name = fills[j].name) =>
                              \E d \in Errors(diagnostics) :
                                  /\ d.node = FillNode(n, j)
                                  /\ d.message = "used more than once"
                   /\ (/\ ProvidedSlots(n) \subseteq declared
                       /\ Cardinality(ProvidedSlots(n)) = Len(fills))
                      => ~ \E d \in Errors(diagnostics), i \in 1..Len(fills) :
                               d.node = FillNode(n, i)

\* C6: at every call site in a slide that names a known component C there is
\* exactly one "never used" diagnostic per slot C declares and the call site
\* does not provide, none for a provided slot, and each is a warning.
UnusedSlotWarnings ==
    validated =>
        \A n \in SlideTreeReferences(model) :
            Link(model, n.node.ref) # <<>> =>
                LET declared ==
                        DeclaredSlots(LastDeclaration(model, n.node.ref).content)
                    NeverUsed(x) ==
                        {i \in 1..Len(diagnostics) :
                            /\ diagnostics[i].message = "never used"
                            /\ diagnostics[i].node = n.path
                            /\ diagnostics[i].slot = x}
                IN /\ \A x \in declared \ ProvidedSlots(n) :
                          /\ Cardinality(NeverUsed(x)) = 1
                          /\ \A i \in NeverUsed(x) :
                                 diagnostics[i].severity = "warning"
                   /\ \A x \in ProvidedSlots(n) : NeverUsed(x) = {}

\* C7: validation never short-circuits: at every call site the validator
\* visits, an unresolved component, every repeated fill and every first fill
\* of an undeclared slot are all reported, whatever else is wrong with that
\* call site or with an earlier one.
NoShortCircuit ==
    validated =>
        \A n \in Range(collectSlidesReferences(model, 1)) :
            LET fills == n.node.slots
            IN /\ Link(model, n.node.ref) = <<>> =>
                      \E d \in Errors(diagnostics) :
                          d.node = n.path /\ d.message = "Unknown component"
               /\ \A j \in 1..Len(fills) :
                      (\E i \in 1..(j - 1) : fills[i].name = fills[j].name) =>
                          \E d \in Errors(diagnostics) :
                              /\ d.node = FillNode(n, j)
                              /\ d.message = "used more than once"
               /\ Link(model, n.node.ref) # <<>> =>
                      \A j \in 1..Len(fills) :
                          (/\ fills[j].name \notin DeclaredSlots(
                                  LastDeclaration(model, n.node.ref).content)
                           /\ \A i \in 1..(j - 1) : fills[i].name # fills[j].name)
                          => \E d \in Errors(diagnostics) :
                                 /\ d.node = FillNode(n, j)
                                 /\ d.message = "Unknown slot"


\* the attribute kind and the type guard that belong to a root box type
KindOfRoot(type) ==
    CASE type = "ComponentContentBox" -> "ContentBoxAttribute"
      [] type = "TextBox" -> "TextBoxAttribute"
      [] type = "ListBox" -> "ListBoxAttribute"
      [] type \in {"ImageBox", "VideoBox"} -> "MediaBoxAttribute"
      [] OTHER -> ""

GuardOfRoot(type) ==
    CASE type = "ComponentContentBox" -> "isContentBoxAttribute"
      [] type = "TextBox" -> "isTextBoxAttribute"
      [] type = "ListBox" -> "isListBoxAttribute"
      [] type \in {"ImageBox", "VideoBox"} -> "isMediaBoxAttribute"
      [] OTHER -> "false"

RECURSIVE UltimateRoot(_, _, _)
\* the root box reached from the component called name by following
\* root-level call sites through the retained declarations
UltimateRoot(m, name, steps) ==
    LET root == LastDeclaration(m, name).content
    IN IF /\ root.type = "ComponentBoxReference"
          /\ steps > 0
          /\ root.ref \in DeclaredNames(m)
       THEN UltimateRoot(m, root.ref, steps - 1)
       ELSE root

\* an attribute list as a map: its set of (key, value) pairs
AttrMap(attributes) ==
    {<<attributes[i].key, attributes[i].value>> : i \in 1..Len(attributes)}

Keys(map) == {p[1] : p \in map}

\* D with every key of R overwritten
Merge(D, R) == R \cup {p \in D : p[1] \notin Keys(R)}

\* the slide's content is a call site of a declared component, written
\* without a fragment, and the deck has been generated
SlideIsRenderedCallSite ==
    /\ output.status = "ok"
    /\ model.slides[1].content.type = "ComponentBoxReference"
    /\ model.slides[1].content.ref \in DeclaredNames(model)
    /\ getAttributeValue(model.slides[1].content.attributes, "fragment") = undefined

\* what the component's root box rendered as at that call site
RenderedRoot == output.nodes[1].children[1]

PlainRootTypes ==
    {"ComponentContentBox", "TextBox", "ListBox", "ImageBox", "VideoBox"}

\* C8: a redeclared component name gets a warning per redeclaration, and every
\* use of the name goes to the last declaration: its slot set decides the
\* unknown-slot errors, its root box kind chooses the guard that authorizes
\* call-site attributes and the tag put on the merged attributes, and its
\* body is the one rendered.
LastDeclarationWinsEverywhere ==
    /\ validated =>
          /\ \A i \in 1..Len(model.components) :
                (\E j \in 1..(i - 1) :
                    model.components[j].name = model.components[i].name)
                => \E d \in Warnings(diagnostics) :
                       /\ d.node = <<Step("components", i)>>
                       /\ d.message = "declared multiple times"
          /\ \A n \in Range(collectSlidesReferences(model, 1)) :
                Link(model, n.node.ref) # <<>> =>
                    LET last == LastDeclaration(model, n.node.ref).content
                    IN /\ \A j \in 1..Len(n.node.slots) :
                              (\A i \in 1..(j - 1) :
                                  n.node.slots[i].name # n.node.slots[j].name)
                              => ((\E d \in Errors(diagnostics) :
                                      /\ d.node = FillNode(n, j)
                                      /\ d.message = "Unknown slot")
                                  <=> n.node.slots[j].name \notin DeclaredSlots(last))
                       /\ last.type \in PlainRootTypes =>
                              collectAttributeTypeChecker(model, n.node,
                                  MaxCallStack) = GuardOfRoot(last.type)
    /\ SlideIsRenderedCallSite =>
          LET last == LastDeclaration(model, model.slides[1].content.ref).content
          IN /\ last.type \in PlainRootTypes =>
                    RenderedRoot.tag = (IF last.type = "ComponentContentBox"
                                        THEN "grid" ELSE TerminalTag(last.type))
             /\ last.type \in {"ComponentContentBox", "TextBox", "ListBox"} =>
                    \A a \in Range(RenderedRoot.attributes) :
                        a.atype = KindOfRoot(last.type)

\* C9: at a call site of any component whose root box declares attributes D,
\* with call-site attributes R, the attributes applied to the root box are D
\* with every key of R overwritten: keys(D) union keys(R), R's value where R
\* has the key and D's otherwise.
CallSiteAttributesMerged ==
    SlideIsRenderedCallSite =>
        LET last == LastDeclaration(model, model.slides[1].content.ref).content
        IN last.type \in PlainRootTypes =>
               AttrMap(RenderedRoot.attributes)
                   = Merge(AttrMap(last.attributes),
                           AttrMap(model.slides[1].content.attributes))

\* C10: when the component's root box is itself a call site (to any depth),
\* the attributes given at the outermost call site reach the ultimate root
\* box, key by key, and every attribute that reaches it carries the kind of
\* that root (container, text, list or media).
ChainedAttributesReachUltimateRoot ==
    SlideIsRenderedCallSite =>
        LET name == model.slides[1].content.ref
            ultimate == UltimateRoot(model, name, Len(model.components))
        IN (/\ LastDeclaration(model, name).content.type = "ComponentBoxReference"
            /\ ultimate.type \in PlainRootTypes)
           => /\ AttrMap(model.slides[1].content.attributes)
                    \subseteq AttrMap(RenderedRoot.attributes)
              /\ \A a \in Range(RenderedRoot.attributes) :
                     a.atype = KindOfRoot(ultimate.type)

\* C11: at every call site of a component, each call-site attribute whose key
\* is outside the legal key set of the kind of the component's ultimate root
\* box (found by following root-level call sites) gets an 'is not authorized'
\* error, and an attribute whose key is inside that set gets none.
UnauthorizedAttributesReported ==
    boxChecks.done =>
        \A n \in AllReferences(model) :
            n.node.ref \in DeclaredNames(model) =>
                LET ultimate == UltimateRoot(model, n.node.ref,
                                             Len(model.components))
                IN ultimate.type \in PlainRootTypes =>
                       \A i \in 1..Len(n.node.attributes) :
                           (\E d \in Errors(boxChecks.diagnostics) :
                               /\ d.node = n.path
                               /\ d.key = n.node.attributes[i].key
                               /\ d.message = "is not authorized")
                           <=> n.node.attributes[i].key
                                   \notin AuthorizedKeys(GuardOfRoot(ultimate.type))

RECURSIVE RenderedNodes(_)
\* a node of the render tree and every node below it
RenderedNodes(node) ==
    {node} \cup UNION {RenderedNodes(node.children[i]) :
                          i \in 1..Len(node.children)}

\* the grid containers of the deck that was generated
RenderedGrids ==
    {g \in UNION {RenderedNodes(output.nodes[i]) : i \in 1..Len(output.nodes)} :
        g.tag = "grid"}

IsNumeral(chars) ==
    chars # <<>> /\ \A i \in 1..Len(chars) : chars[i] \in Digits

RECURSIVE DecimalValue(_)
DecimalValue(chars) ==
    IF chars = <<>> THEN 0
    ELSE 10 * DecimalValue(SubSeq(chars, 1, Len(chars) - 1))
         + DigitValue(chars[Len(chars)])

\* the column count c >= 1 a grid's attributes ask for: 2 without a column
\* attribute, the number written otherwise; 0 when they ask for none
ColumnCount(attributes) ==
    LET at == {i \in 1..Len(attributes) : attributes[i].key = "column"}
    IN IF at = {} THEN 2
       ELSE IF /\ Cardinality(at) = 1
               /\ \A i \in at : /\ attributes[i].value # undefined
                                /\ IsNumeral(Spell(attributes[i].value))
       THEN DecimalValue(Spell(attributes[CHOOSE i \in at : TRUE].value))
       ELSE 0

RenderedGridIs(c, n, r) ==
    /\ output.status = "ok"
    /\ \E g \in RenderedGrids :
          /\ ColumnCount(g.attributes) = c
          /\ Len(g.children) = n
          /\ g.style.rows = Number(r)

PlacementOf(word) ==
    CASE word \in {"top", "left"} -> "start"
      [] word = "center" -> "center"
      [] word \in {"bottom", "right"} -> "end"

VerticalWords == {"top", "center", "bottom"}
HorizontalWords == {"left", "center", "right"}

\* the alignment terms: a vertical word, a horizontal word, or 'V H'
AlignmentTerms ==
    {[value |-> w, vertical |-> PlacementOf(w), horizontal |-> "center"] :
        w \in VerticalWords}
    \cup {[value |-> w, vertical |-> "center", horizontal |-> PlacementOf(w)] :
             w \in HorizontalWords}
    \cup {[value |-> "top left", vertical |-> "start", horizontal |-> "start"],
          [value |-> "top center", vertical |-> "start", horizontal |-> "center"],
          [value |-> "top right", vertical |-> "start", horizontal |-> "end"],
          [value |-> "center left", vertical |-> "center", horizontal |-> "start"],
          [value |-> "center center", vertical |-> "center", horizontal |-> "center"],
          [value |-> "center right", vertical |-> "center", horizontal |-> "end"],
          [value |-> "bottom left", vertical |-> "end", horizontal |-> "start"],
          [value |-> "bottom center", vertical |-> "end", horizontal |-> "center"],
          [value |-> "bottom right", vertical |-> "end", horizontal |-> "end"]}

\* C13: mapAlignment turns a two-word term 'V H' into the placements of V
\* (vertical) and H (horizontal), with top/left -> start, center -> center and
\* bottom/right -> end; a single word places the axis it belongs to and leaves
\* the other axis at center ('left' is vertical center / horizontal start,
\* 'top' is vertical start / horizontal center); no alignment is center center.
AlignmentTermsMapped ==
    output.status = "ok" =>
        \A g \in RenderedGrids :
            LET at == {i \in 1..Len(g.attributes) :
                          g.attributes[i].key = "alignment"}
            IN /\ at = {} => g.style.alignment = Placement("center", "center")
               /\ \A i \in at, t \in AlignmentTerms :
                     (Cardinality(at) = 1 /\ g.attributes[i].value = t.value)
                     => g.style.alignment = Placement(t.vertical, t.horizontal)

\* the slots of the body of the component called at the slide's call site,
\* in the order they are met
SlotsMet(box) ==
    IF box.type = "ComponentSlot" THEN <<box>>
    ELSE IF box.type = "ComponentContentBox"
            /\ \A i \in 1..Len(box.boxes) : box.boxes[i].type = "ComponentSlot"
    THEN box.boxes
    ELSE <<>>

\* what the slot was rendered as: the root of the body, or the child of the
\* body's container at the slot's position
RenderedSlot(box, i) ==
    IF box.type = "ComponentSlot" THEN RenderedRoot
    ELSE RenderedRoot.children[i]

\* C14: every slot met in the body of a called component is rendered as the
\* call site's pre-rendered fill for the slot's name when the call site has
\* one, otherwise as the slot's own default content (as nothing when it has
\* no default); this holds for every slot name. (Call sites whose fills and
\* slot defaults can all be rendered.)
SlotsRenderFillOrDefault ==
    (/\ output.status # "none"
     /\ model.slides[1].content.type = "ComponentBoxReference"
     /\ Cardinality(DeclarationsOf(model, model.slides[1].content.ref)) = 1
     /\ getAttributeValue(model.slides[1].content.attributes, "fragment") = undefined)
    => LET reference == model.slides[1].content
           body == LastDeclaration(model, reference.ref).content
           table == [name \in DeclaredNames(model) |->
                        LastDeclaration(model, name)]
           rendered(box) == generateBox(model, table, box, MaxCallStack)
       IN (/\ SlotsMet(body) # <<>>
           /\ \A j \in 1..Len(reference.slots) :
                 rendered(reference.slots[j].content).status = "ok"
           /\ \A i \in 1..Len(SlotsMet(body)) :
                 SlotsMet(body)[i].content # <<>> =>
                     rendered(SlotsMet(body)[i].content[1]).status = "ok")
          => /\ output.status = "ok"
             /\ \A i \in 1..Len(SlotsMet(body)) :
                   LET slot == SlotsMet(body)[i]
                       fills == {j \in 1..Len(reference.slots) :
                                    reference.slots[j].name = slot.name}
                   IN IF fills # {}
                      THEN \E j \in fills :
                              RenderedSlot(body, i)
                                  = rendered(reference.slots[j].content).node
                      ELSE IF slot.content # <<>>
                      THEN RenderedSlot(body, i)
                               = rendered(slot.content[1]).node
                      ELSE RenderedSlot(body, i) = EmptyNode

\* the element a box of that type is rendered as
TagOf(type) ==
    IF type \in {"ContentBox", "ComponentContentBox"} THEN "grid"
    ELSE TerminalTag(type)

\* node is the output of a box rendered as tag with the fragment style applied
\* to it: a fragment wrapper around that output (or, for a container, the
\* fragment class on the container's own element)
HasFragment(node, style, tag) ==
    \/ /\ node.tag = "div"
       /\ node.fragment = style
       /\ Len(node.children) = 1
       /\ node.children[1].tag = tag
    \/ /\ tag = "grid"
       /\ node.tag = "grid"
       /\ node.fragment = style

\* the output below a fragment wrapper
Unwrapped(node) == IF node.tag = "div" THEN node.children[1] ELSE node

\* C15: every box that carries a fragment attribute is rendered with the
\* fragment applied around its own output: a box of a slide tree, a box
\* inside a component body, and the root box of a component, whose fragment
\* is the call site's when the call site writes one and the declared one
\* otherwise.
FragmentAlwaysApplied ==
    output.status = "ok" =>
        LET box == model.slides[1].content
            node == output.nodes[1].children[1]
            style(b) == getAttributeValue(b.attributes, "fragment")
        IN /\ (box.type # "ComponentBoxReference" /\ style(box) # undefined)
              => HasFragment(node, style(box), TagOf(box.type))
           /\ (/\ box.type = "ComponentBoxReference"
               /\ Cardinality(DeclarationsOf(model, box.ref)) = 1)
              => LET body == LastDeclaration(model, box.ref).content
                     applied == IF style(box) # undefined THEN style(box)
                                ELSE style(body)
                 IN body.type \in PlainRootTypes =>
                        /\ applied # undefined
                           => HasFragment(node, applied, TagOf(body.type))
                        /\ body.type = "ComponentContentBox" =>
                              \A i \in 1..Len(body.boxes) :
                                  (/\ body.boxes[i].type = "TextBox"
                                   /\ style(body.boxes[i]) # undefined)
                                  => HasFragment(Unwrapped(node).children[i],
                                                 style(body.boxes[i]), "p")

\* C16: for every slide, the header rendered is the slide's own when the
\* slide declares one, the deck's otherwise, and none when neither declares
\* one; the footer likewise and independently of the header; each slide's
\* section carries its own rendering of them.
HeaderFooterResolved ==
    output.status = "ok" =>
        \A i \in 1..Len(model.slides), f \in {"header", "footer"} :
            LET own == optional(model.slides[i], f)
                expected == IF own # <<>> THEN own ELSE optional(model, f)
                rendered == output.nodes[i][f]
                styles == output.nodes[i][f \o "Styles"]
            IN IF expected = <<>> THEN rendered = <<>> /\ styles = <<>>
               ELSE /\ rendered =
                          <<generateBox(model, componentsSymbolTable,
                                        expected[1].content, MaxCallStack).node>>
                    /\ styles = generateHeaderFooterStyles(expected[1])

\* a deck with a header generated for two slides: the first slide shows its
\* own header, the second one the deck's, and only the second has a footer
HeaderFooterResolvedWitness ==
    /\ output.status = "ok"
    /\ Len(model.slides) = 2
    /\ optional(model, "header") # <<>>
    /\ optional(model.slides[1], "header") # <<>>
    /\ optional(model.slides[2], "header") = <<>>
    /\ output.nodes[1].header # output.nodes[2].header
    /\ output.nodes[2].header # <<>>
    /\ output.nodes[1].footer = <<>>
    /\ output.nodes[2].footer # <<>>

\* the table and the render tree a process that has generated nothing before
\* builds for the document
FreshTable(m) == [name \in DeclaredNames(m) |-> LastDeclaration(m, name)]

FreshRender(m) == generateSlides(m, FreshTable(m), 1, MaxCallStack)

\* C17: whatever was generated before in the same process, the outcome of
\* generating a document is the one of a fresh process; generating the same
\* document twice gives the same outcome; and no component of an earlier
\* document is left in the table the generator resolves call sites with.
RunsAreIsolated ==
    output.status # "none" =>
        /\ output.status = FreshRender(model).status
        /\ output.nodes = FreshRender(model).nodes
        /\ DOMAIN componentsSymbolTable = DeclaredNames(model)
        /\ previous.model = <<model>> => output = previous.output

\* a second run has generated a deck that calls A, after a run on a document
\* that declared A differently
RunsAreIsolatedWitness ==
    /\ output.status = "ok"
    /\ previous.model # <<>>
    /\ previous.output.status = "ok"
    /\ previous.model[1].components # model.components
    /\ "A" \in DeclaredNames(previous.model[1])
    /\ model.slides[1].content.type = "ComponentBoxReference"


\* C18: once generateOutput has run on a document holding a call site whose
\* target component does not resolve, the run has failed with an exception
\* and no artifact has been written.
UnresolvedReferenceNeverWritten ==
    (/\ output.status # "none"
     /\ \E n \in AllReferences(model) : Link(model, n.node.ref) = <<>>)
    => /\ ~output.written
       /\ output.status # "ok"

\* C19: on a document that every validation check accepts without an error,
\* every grid container that is rendered is laid out with a column count
\* that is a number and at least 1.
NonPositiveColumnReported ==
    (/\ validated
     /\ boxChecks.done
     /\ output.status = "ok"
     /\ Errors(diagnostics) = {}
     /\ \A i \in 1..Len(boxChecks.diagnostics) :
           boxChecks.diagnostics[i].severity = "warning"
     /\ OtherChecksPass(model))
    => \A g \in RenderedGrids :
           /\ g.style.columns.kind = "number"
           /\ g.style.columns.value >= 1

\* a session id that is empty: not written, blanks only, or a pair of braces
\* with nothing but blanks in, between and around them
IsEmptySessionId(sessionId) ==
    \/ sessionId = <<>>
    \/ SelectSeq(sessionId[1], LAMBDA c : c # " ") \in {<<>>, <<"{", "}">>}

\* the error checkLiveQuizBox accepts on the live quiz n
SessionIdError(n) ==
    \E d \in Errors(boxChecks.diagnostics) :
        /\ d.node = n.path
        /\ d.message = "Live quiz requires a non-empty session id"

\* C20: once the boxes are validated, a live quiz has the session id error of
\* checkLiveQuizBox exactly when its session id is empty (not written, blanks
\* only, or empty braces).
EmptySessionIdReported ==
    boxChecks.done =>
        \A n \in Range(streamModel(model)) :
            n.node.type = "LiveQuizBox" =>
                (IsEmptySessionId(n.node.sessionId) <=> SessionIdError(n))

\* a live quiz written with { } as its session id has been reported
EmptySessionIdReportedWitness ==
    /\ boxChecks.done
    /\ \E n \in Range(streamModel(model)) :
          /\ n.node.type = "LiveQuizBox"
          /\ n.node.sessionId = <<<<"{", " ", "}">>>>
          /\ SessionIdError(n)


\* the placement each value of the validator's list denotes: a single word
\* places its own axis, a hyphenated pair V-H places both
AcceptedAlignments ==
    {[value |-> t.value, vertical |-> t.vertical, horizontal |-> t.horizontal] :
        t \in {a \in AlignmentTerms :
                  a.value \in {"top", "center", "bottom", "left", "right"}}}
    \cup {[value |-> "top-left", vertical |-> "start", horizontal |-> "start"],
          [value |-> "top-center", vertical |-> "start", horizontal |-> "center"],
          [value |-> "top-right", vertical |-> "start", horizontal |-> "end"],
          [value |-> "center-left", vertical |-> "center", horizontal |-> "start"],
          [value |-> "center-center", vertical |-> "center", horizontal |-> "center"],
          [value |-> "center-right", vertical |-> "center", horizontal |-> "end"],
          [value |-> "bottom-left", vertical |-> "end", horizontal |-> "start"],
          [value |-> "bottom-center", vertical |-> "end", horizontal |-> "center"],
          [value |-> "bottom-right", vertical |-> "end", horizontal |-> "end"]}

\* the alignment check of the validator warned about the content of slide i
AlignmentWarned(i) ==
    \E d \in Warnings(boxChecks.diagnostics) :
        d.node = SlidePath(i) /\ d.key = "alignment"

\* C30: for a slide whose content is a grid container with one alignment
\* attribute, a value the validator accepts without a warning is laid out at
\* the placement its name denotes, and a two-word value 'V H' that
\* mapAlignment understands is accepted without a warning.
AlignmentValuesAgree ==
    (boxChecks.done /\ output.status = "ok") =>
        \A i \in 1..Len(model.slides) :
            LET box == model.slides[i].content
            IN (/\ box.type = "ContentBox"
                /\ Len(box.attributes) = 1
                /\ box.attributes[1].key = "alignment")
               => LET value == box.attributes[1].value
                      grid == output.nodes[i].children[1]
                  IN /\ \A t \in AcceptedAlignments :
                           (t.value = value /\ ~AlignmentWarned(i))
                           => grid.style.alignment
                                  = Placement(t.vertical, t.horizontal)
                     /\ (\E t \in AlignmentTerms :
                            /\ t.value = value
                            /\ t.value \notin {"top", "center", "bottom",
                                               "left", "right"})
                        => ~AlignmentWarned(i)


\* the deck calls a component whose body is a container of a slot and of a
\* call of another component, the body of which is a container of one slot
NestedExpansion ==
    /\ Len(model.components) = 2
    /\ Len(model.slides) = 1
    /\ model.components[1].name # model.components[2].name
    /\ model.slides[1].content.type = "ComponentBoxReference"
    /\ model.slides[1].content.ref = model.components[2].name
    /\ model.slides[1].content.attributes = <<>>
    /\ LET body == model.components[2].content
           innerBody == model.components[1].content
       IN /\ body.type = "ComponentContentBox"
          /\ Len(body.boxes) = 2
          /\ body.boxes[1].type = "ComponentSlot"
          /\ body.boxes[2].type = "ComponentBoxReference"
          /\ body.boxes[2].ref = model.components[1].name
          /\ innerBody.type = "ComponentContentBox"
          /\ Len(innerBody.boxes) = 1
          /\ innerBody.boxes[1].type = "ComponentSlot"

\* what the slot of the inner component must be rendered as: the fill given
\* for its name at the inner call, its default text otherwise, nothing when it
\* has neither
InnerSlotExpected ==
    LET slot == model.components[1].content.boxes[1]
        fills == model.components[2].content.boxes[2].slots
        given == {j \in 1..Len(fills) : fills[j].name = slot.name}
    IN IF given # {} THEN generateTerminal(fills[Max(given)].content)
       ELSE IF slot.content # <<>> THEN generateTerminal(slot.content[1])
       ELSE EmptyNode

\* C27: in a nested expansion the slot of the inner component is rendered from
\* the fills of the inner call alone: a fill given at the outer call never
\* replaces it, and without a fill of its own it renders its default.
SlotFillsScoped ==
    (output.status # "none" /\ NestedExpansion) =>
        /\ output.status = "ok"
        /\ output.nodes[1].children[1].children[2].children[1]
               = InnerSlotExpected

\* C26: while the slide shown carries the non-annotable attribute the toolbar
\* is hidden and no annotation tool is active
AnnotationLock ==
    (/\ toolbar.currentSlide # 0
     /\ hasAttribute(model.slides[toolbar.currentSlide].attributes,
                     "non-annotable"))
        => (toolbar.display = "none" /\ toolbar.currentTool = "null")

\* the learner's selection: the text typed into a short quiz, the id of the
\* radio button picked in any other quiz, <<>> when nothing is picked
Selection ==
    IF quiz.type = "short" THEN trim(quiz.value)
    ELSE IF quiz.checked = 0 THEN <<>> ELSE trim(quiz.radios[quiz.checked])

\* the two texts are the same but for the case of their letters
SameIgnoringCase(x, y) ==
    /\ Len(x) = Len(y)
    /\ \A i \in DOMAIN x :
           \/ x[i] = y[i]
           \/ {x[i], y[i]} \in {{"a", "A"}, {"b", "B"}}

\* C25: a Submit with a non-empty selection writes 'Correct.' exactly when the
\* trimmed selection equals the trimmed data-correct-answer ignoring the case
\* of letters and 'Not quite.' otherwise; a Submit with an empty text or with
\* no option picked changes nothing.
QuizAnswerChecked ==
    [][(SubmitShort \/ SubmitChoice) =>
          IF Selection = <<>> THEN quiz' = quiz
          ELSE quiz'.feedback =
                   IF SameIgnoringCase(Selection, trim(quiz.correctAnswer))
                   THEN "Correct." ELSE "Not quite."]_vars

\* an answer typed in another case than the recorded one was accepted
QuizAnswerCheckedWitness ==
    /\ quiz.type = "short"
    /\ quiz.feedback = "Correct."
    /\ trim(quiz.value) # trim(quiz.correctAnswer)
    /\ SameIgnoringCase(trim(quiz.value), trim(quiz.correctAnswer))

\* C29: with revealResultsOnDemand the results start hidden; they become
\* visible only by a click on Reveal or by the Submit of an incorrect
\* selection, they are never hidden again, and the Submit of a correct
\* selection leaves them as they are.
RevealOnDemand ==
    /\ quiz.revealOnDemand => quiz.results = "none"
    /\ [][quiz.revealOnDemand =>
             /\ quiz.results = "block" => quiz'.results = "block"
             /\ (quiz.results = "none" /\ quiz'.results # "none") =>
                    \/ RevealAnswer
                    \/ /\ SubmitShort \/ SubmitChoice
                       /\ Selection # <<>>
                       /\ ~SameIgnoringCase(Selection, trim(quiz.correctAnswer))
             /\ (/\ SubmitShort \/ SubmitChoice
                 /\ Selection # <<>>
                 /\ SameIgnoringCase(Selection, trim(quiz.correctAnswer)))
                    => quiz'.results = quiz.results]_vars

\* a correct answer was submitted and the results are still hidden
RevealOnDemandWitness ==
    /\ quiz.revealOnDemand
    /\ quiz.feedback = "Correct."
    /\ quiz.results = "none"
    /\ quiz.reveal = ""

\* the relay handles the message at the head of its queue, an event of this name
Handled(event) ==
    /\ live.incoming # <<>>
    /\ Head(live.incoming).event = event
    /\ live'.incoming = Tail(live.incoming)

\* the page takes a qcm-results-update from the head of its messages
PageUpdated ==
    /\ live.inbox["page"] # <<>>
    /\ Head(live.inbox["page"]).event = "qcm-results-update"
    /\ live'.inbox["page"] = Tail(live.inbox["page"])

\* C21: the widget of every live quiz embeds the session id declared on that
\* live quiz in the document.
SessionIdEmbedded ==
    \A w \in DOMAIN live.widgets :
        <<live.widgets[w].sessionId>>
            = trim(slice(model.slides[w].content.sessionId[1]))

\* C22: every counter starts at 0, and a qcm-results-update for choice x that
\* the page receives adds exactly 1 to the counter of x in every listening
\* widget and leaves the counters of its other options as they are.
TallyAdditive ==
    /\ \A w \in DOMAIN live.widgets :
           \A i \in DOMAIN live.widgets[w].options :
               live.widgets[w].counts[i] = [text |-> "number", value |-> 0]
    /\ [][PageUpdated =>
             \A w \in DOMAIN live.widgets :
                 live.widgets[w].listening =>
                     \A i \in DOMAIN live.widgets[w].options :
                         live'.widgets[w].counts[i] =
                             [text |-> "number",
                              value |-> live.widgets[w].counts[i].value
                                  + (IF live.widgets[w].options[i]
                                         = Head(live.inbox["page"]).data.choice
                                     THEN 1 ELSE 0)]]_vars

\* C23: register-quiz for session s makes the quiz the one record of s, leaves
\* the records of the other sessions alone and sends the quiz to exactly the
\* sockets in room s; a socket that joins s is sent the record of s as its
\* only new-quiz-data, and none when no quiz was ever registered for s.
ActiveQuizRecord ==
    [][/\ Handled("register-quiz") =>
              LET data == Head(live.incoming).data
              IN /\ DOMAIN live'.activeQuizzes
                        = DOMAIN live.activeQuizzes \cup {data.sessionId}
                 /\ \A s \in DOMAIN live'.activeQuizzes :
                        live'.activeQuizzes[s] =
                            IF s = data.sessionId THEN data
                            ELSE live.activeQuizzes[s]
                 /\ \A socket \in DOMAIN live.inbox :
                        live'.inbox[socket] =
                            IF socket \in live.rooms[data.sessionId]
                            THEN Append(live.inbox[socket],
                                        [event |-> "new-quiz-data",
                                         data |-> data])
                            ELSE live.inbox[socket]
       /\ Handled("join-session") =>
              LET socket == Head(live.incoming).socket
                  s == Head(live.incoming).data.sessionId
                  quizzes(messages) ==
                      SelectSeq(messages,
                                LAMBDA m : m.event = "new-quiz-data")
              IN quizzes(live'.inbox[socket]) =
                     quizzes(live.inbox[socket])
                         \o (IF s \in DOMAIN live.activeQuizzes
                             THEN <<[event |-> "new-quiz-data",
                                     data |-> live.activeQuizzes[s]]>>
                             ELSE <<>>)]_vars

\* C24: a vote for session s is sent once, as qcm-results-update, to every
\* socket that is in room s when the relay handles it and to no other socket;
\* the relay records nothing about it, so that a repeated vote is sent again.
VoteFanOut ==
    [][Handled("vote") =>
          LET data == Head(live.incoming).data
          IN /\ \A socket \in DOMAIN live.inbox :
                    live'.inbox[socket] =
                        IF socket \in live.rooms[data.sessionId]
                        THEN Append(live.inbox[socket],
                                    [event |-> "qcm-results-update",
                                     data |-> data])
                        ELSE live.inbox[socket]
             /\ live'.activeQuizzes = live.activeQuizzes
             /\ live'.rooms = live.rooms]_vars

\* the same vote was handled twice: both went to the page, which is in the
\* room, and none to the voter, which is not
VoteFanOutWitness ==
    /\ Len(live.inbox["page"]) = 2
    /\ live.inbox["page"][1] = live.inbox["page"][2]
    /\ live.inbox["page"][1].event = "qcm-results-update"
    /\ "page" \in live.rooms[live.inbox["page"][1].data.sessionId]
    /\ "voter" \notin live.rooms[live.inbox["page"][1].data.sessionId]
    /\ live.inbox["voter"] = <<>>

\* C28: a vote received by the page changes the counters of one live quiz
\* of the deck at most.
TallyIsolated ==
    [][PageUpdated =>
          Cardinality({w \in DOMAIN live.widgets :
                          live'.widgets[w].counts # live.widgets[w].counts})
              <= 1]_vars

====
